---- MODULE Spec2Model ----
(***************************************************************************)
(* Model of the DICOM SR -> HL7 v2 / FHIR transcoding engine.              *)
(*                                                                         *)
(* Strings are sequences of tokens.  A token is one character that the     *)
(* code inspects (" ", "=", "|", "^", "&", "\\", "\n", "-", a quote, a     *)
(* bracket) or a word the code only copies ("Image Library", "OBX").       *)
(* String concatenation is \o, so every split, strip, replace and join of  *)
(* the code acts on the text it would act on.                              *)
(*                                                                         *)
(* A text attribute a dataset or dict does not carry has the value ABSENT;  *)
(* a sequence attribute it does not carry is the empty sequence, and a     *)
(* PatientName it does not carry is the empty name: the code treats each   *)
(* pair alike.                                                             *)
(***************************************************************************)
EXTENDS Integers, Sequences, FiniteSets, TLC

VARIABLES
    pc,         \* position of the conversion under way
    data,       \* the input document: decoded DICOM dataset or dict record
    output,     \* parse_item's accumulator: the rendered lines
    report,     \* extract_sr_report's return value
    hl7_list,   \* create_hl7_message's list of stage outputs
    result,     \* what the operation returned to its caller (NONE: nothing)
    raised,     \* the exception that left the operation (NONE: none)
    module,     \* the module whose dicom_to_fhir runs (NONE: no FHIR conversion)
    patient_resource,   \* dicom_to_fhir's local: the Patient resource
    study_resource,     \* dicom_to_fhir's local: the ImagingStudy resource
    observations,       \* dicom_to_fhir's local: the Observation resources
    obs_index,          \* position of "for obs in observations"
    diagnostic_report,  \* dicom_to_fhir's local: the DiagnosticReport resource
    entries,            \* dicom_to_fhir's local: the Bundle entries (<<>>: unbound)
    uuids,              \* number of identifiers generate_uuid has handed out
    parsed,             \* the dict record handed to the builders (NONE: none)
    app,                \* the web module serving the requests
    tmp,                \* the temporary directory: file name -> the upload staged there
    req,                \* the requests under way: position, what was read, response
    validation_dict     \* SR_validation's global: check name -> passed

fhir_vars == <<module, patient_resource, study_resource, observations, obs_index,
               diagnostic_report, entries, uuids>>

build_vars == <<parsed>>

serve_vars == <<app, tmp, req>>

validate_vars == <<validation_dict>>

vars ==
    <<pc, data, output, report, hl7_list, result, raised, fhir_vars, build_vars,
      serve_vars, validate_vars>>

\* ------------------------------------------------------------------ bounds
MaxNodes == 3        \* items of a content tree drawn over the core item kinds
MaxRichNodes == 2    \* items of a content tree drawn over every item kind
MaxTextLen == 3      \* characters of a text handed to escape_hl7
MaxFindings == 2     \* findings of a dict record

\* ------------------------------------------------------------- text helpers
ABSENT == <<"<absent>">>

NONE == <<"<none>">>

\* no FHIR conversion under way
FhirIdle ==
    /\ module = NONE
    /\ patient_resource = NONE
    /\ study_resource = NONE
    /\ observations = <<>>
    /\ obs_index = 0
    /\ diagnostic_report = NONE
    /\ entries = <<>>
    /\ uuids = 0

\* no dict record under way
BuildIdle == parsed = NONE

\* no request is being served
ServeIdle == app = "none" /\ tmp = <<>> /\ req = <<>>

\* no validation has recorded anything
ValidateIdle == validation_dict = [check \in {} |-> FALSE]

Get(v, default) == IF v = ABSENT THEN default ELSE v

Has(v) == v # ABSENT

RECURSIVE Concat(_)
Concat(ss) == IF ss = <<>> THEN <<>> ELSE Head(ss) \o Concat(Tail(ss))

RECURSIVE Repeat(_, _)
Repeat(s, n) == IF n <= 0 THEN <<>> ELSE s \o Repeat(s, n - 1)

RECURSIVE Join(_, _)
Join(ss, sep) ==
    IF ss = <<>> THEN <<>>
    ELSE IF Len(ss) = 1 THEN Head(ss)
    ELSE Head(ss) \o sep \o Join(Tail(ss), sep)

\* str.split(sep): the pieces between consecutive separators
Split(s, sep) ==
    LET seps   == { k \in 1..Len(s) : s[k] = sep }
        At(j)  == IF j = 0 THEN 0
                  ELSE IF j > Cardinality(seps) THEN Len(s) + 1
                  ELSE CHOOSE k \in seps : Cardinality({ m \in seps : m < k }) = j - 1
    IN  [ j \in 1..(Cardinality(seps) + 1) |-> SubSeq(s, At(j - 1) + 1, At(j) - 1) ]

RECURSIVE Replace(_, _, _)
Replace(s, old, new) ==
    IF s = <<>> THEN <<>>
    ELSE (IF Head(s) = old THEN new ELSE <<Head(s)>>) \o Replace(Tail(s), old, new)

Contains(s, c) == \E k \in 1..Len(s) : s[k] = c

RECURSIVE LStripChars(_, _)
LStripChars(s, chars) ==
    IF s # <<>> /\ Head(s) \in chars THEN LStripChars(Tail(s), chars) ELSE s

RECURSIVE RStripChars(_, _)
RStripChars(s, chars) ==
    IF s # <<>> /\ s[Len(s)] \in chars
    THEN RStripChars(SubSeq(s, 1, Len(s) - 1), chars) ELSE s

IntStr(n) == <<ToString(n)>>

\* what a call gives its caller: a value, or an exception
Ok(v) == [ok |-> TRUE, val |-> v]

Raise(e) == [ok |-> FALSE, exc |-> e]

Whitespace == {" ", "\n", "\t", "\r"}

Strip(s) == RStripChars(LStripChars(s, Whitespace), Whitespace)

LStrip(s) == LStripChars(s, Whitespace)

LStripSpaces(s) == LStripChars(s, {" "})

\* --------------------------------------------------------- SR content tree
(***************************************************************************)
(* ContentSequence of a dataset: the items of the whole tree in one        *)
(* sequence, each naming its parent (0: the dataset itself).  The          *)
(* ContentSequence of item p holds the items with parent p, in increasing  *)
(* index order.  Items are numbered level by level, so every finite        *)
(* ordered tree has exactly one such sequence.                             *)
(***************************************************************************)
RECURSIVE ChildrenFrom(_, _, _)
ChildrenFrom(nodes, p, i) ==
    IF i > Len(nodes) THEN <<>>
    ELSE (IF nodes[i].parent = p THEN <<i>> ELSE <<>>) \o ChildrenFrom(nodes, p, i + 1)

ContentSequence(nodes, p) == ChildrenFrom(nodes, p, 1)

TreeShapes(n) ==
    { f \in [1..n -> 0..n] :
        /\ \A i \in 1..n : f[i] < i
        /\ \A i \in 1..n, j \in 1..n : i < j => f[i] <= f[j] }

\* ----------------------------------------------------- SR content walker
ItemName(item) ==
    IF Has(item.ConceptName) THEN item.ConceptName ELSE <<>>

ParseItemLine(item, level) ==
    LET indent == Repeat(<<" ", " ">>, level)
        name   == ItemName(item)
        vt     == Get(item.ValueType, <<>>)
    IN  IF vt = <<"CONTAINER">> THEN
            (IF name # <<>> THEN indent \o name
             ELSE indent \o <<"[Unnamed CONTAINER]">>)
        ELSE IF vt = <<"IMAGE">> THEN indent
        ELSE IF vt = <<"CODE">> THEN
            indent \o name \o <<" ", "=", " ">> \o Get(item.CodeMeaning, <<>>)
                \o <<" ", "(">> \o Get(item.CodeValue, <<>>) \o <<",", " ">>
                \o Get(item.CodingSchemeDesignator, <<>>) \o <<")">>
        ELSE IF vt = <<"NUM">> THEN
            indent \o name \o <<" ", "=", " ">> \o Get(item.NumericValue, <<>>)
                \o <<" ">> \o Get(item.UnitMeaning, <<>>)
        ELSE IF vt = <<"TEXT">> THEN
            indent \o name \o <<" ", "=", " ", "\"">> \o Get(item.TextValue, <<>>)
                \o <<"\"">>
        ELSE IF vt = <<"DATE">> THEN
            indent \o name \o <<" ", "=", " ">> \o Get(item.Date, <<>>)
        ELSE IF vt = <<"TIME">> THEN
            indent \o name \o <<" ", "=", " ">> \o Get(item.Time, <<>>)
        ELSE
            indent \o name \o <<" ", "=", " ", "[Unknown or unhandled value type: ">>
                \o vt \o <<"]">>

RECURSIVE parse_item(_, _, _, _)
RECURSIVE parse_items(_, _, _, _)

\* parse_item with the append moved after the recursion (post-order)
parse_item_append_last(nodes, i, out, level) ==
    Append(parse_items(nodes, ContentSequence(nodes, i), out, level + 1),
           ParseItemLine(nodes[i], level))

\* parse_item that treats a node of unhandled value type as a leaf
parse_item_unknown_is_leaf(nodes, i, out, level) ==
    IF Get(nodes[i].ValueType, <<>>) \in
           { <<"CONTAINER">>, <<"IMAGE">>, <<"CODE">>, <<"NUM">>, <<"TEXT">>,
             <<"DATE">>, <<"TIME">> }
    THEN parse_items(nodes, ContentSequence(nodes, i),
                     Append(out, ParseItemLine(nodes[i], level)), level + 1)
    ELSE Append(out, ParseItemLine(nodes[i], level))

parse_item(nodes, i, out, level) ==
    parse_items(nodes, ContentSequence(nodes, i),
                Append(out, ParseItemLine(nodes[i], level)), level + 1)

parse_items(nodes, items, out, level) ==
    IF items = <<>> THEN out
    ELSE parse_items(nodes, Tail(items), parse_item(nodes, Head(items), out, level), level)

sr_lines(ds) == parse_items(ds.Content, ContentSequence(ds.Content, 0), <<>>, 0)

extract_sr_report(ds) ==
    IF ~ds.hasContentSequence THEN <<"No ContentSequence found.">>
    ELSE Join(sr_lines(ds), <<"\n">>)

\* ------------------------------------------------- HL7 segment builders
IsDict(d) == d.kind = "dict"

IsFileDataset(d) == d.kind = "dicom"

NoKeys == [k \in {} |-> ABSENT]

\* dict.get(key, default) where the value is itself a dict or a list: the key
\* is missing when the record does not have it
Sub(sec, key, default) == IF key \in DOMAIN sec THEN sec[key] ELSE default

\* dict.get(key, {}) of a section of the record
Section(d, key) == Sub(d, key, NoKeys)

\* dict.get(key, default) where the value is a text: the key is missing when
\* the record does not have it or holds ABSENT for it
Key(sec, key, default) ==
    IF key \in DOMAIN sec /\ Has(sec[key]) THEN sec[key] ELSE default

create_hl7_msh_segment(d) ==
    IF ~IsDict(d) /\ ~Has(d.SpecificCharacterSet) THEN Raise("AttributeError")
    ELSE
    LET specific_char_set ==
            IF ~IsDict(d) THEN d.SpecificCharacterSet ELSE <<"UNICODE UTF-8">>
        msh_fields ==
            << <<"MSH">>, <<"^", "~", "\\", "&">>, <<"PythonApp">>, <<"PythonFacility">>,
               <<"HL7ReceiverApp">>, <<"HL7ReceiverFacility">>, <<"<now>">>, <<>>,
               <<"ORU", "^", "R01">>, <<"<uuid4>">>, <<"P">>, <<"2.5">>, <<>>, <<>>,
               <<"AL">>, <<"NE">>, <<"USA">>, specific_char_set >>
    IN  Ok(Join(msh_fields, <<"|">>))

UpperChar(c) ==
    CASE c = "f" -> "F" [] c = "m" -> "M" [] c = "o" -> "O" [] c = "u" -> "U"
      [] OTHER -> c

SexCode(gender) ==
    IF gender = <<>> THEN <<>>
    ELSE LET g == UpperChar(gender[1])
         IN  IF g \in {"F", "M", "O"} THEN <<g>> ELSE <<>>

PidFromDict(d) ==
    LET patient   == Section(d, "patient")
        name_list == Sub(patient, "name", <<NoKeys>>)
        name_data == name_list[1]
        family    == Key(name_data, "family", <<>>)
        given_list == Sub(name_data, "given", <<>>)
        given     == IF given_list # <<>> THEN given_list[1] ELSE <<>>
        pid5      == IF name_list = <<>> THEN <<>>
                     ELSE IF family # <<>> THEN family \o <<"^">> \o given
                     ELSE given
        dob       == Key(patient, "birth_date", <<>>)
        pid7      == IF dob # <<>> THEN Replace(dob, "-", <<>>) ELSE <<>>
        pid8      == SexCode(Key(patient, "gender", <<>>))
    IN  << <<"PID">>, <<"1">>, <<>>, Key(patient, "id", <<>>), <<>>, pid5, <<>>,
           pid7, pid8, <<>>, <<>>, <<>>, <<>>, <<>>, <<>>, <<>>, <<>>, <<>> >>

PidFromDicom(d) ==
    LET name   == d.PatientName
        family == name.family_name
        given  == name.given_name
        pid5   == IF family = <<>> /\ given = <<>> THEN <<>>
                  ELSE IF given # <<>> THEN family \o <<"^">> \o given
                  ELSE family
    IN  << <<"PID">>, <<"1">>, <<>>, Get(d.PatientID, <<>>), <<>>, pid5, <<>>,
           Get(d.PatientBirthDate, <<>>), Get(d.PatientSex, <<>>),
           <<>>, <<>>, <<>>, <<>>, <<>>, <<>>, <<>>, <<>>, <<>> >>

create_hl7_pid_segment(d) ==
    Ok(Join(IF IsDict(d) THEN PidFromDict(d) ELSE PidFromDicom(d), <<"|">>))

ObrFromJson(d, obr_set_id) ==
    LET study     == Section(d, "study")
        provider  == Section(d, "provider")
        proc_code == Sub(study, "procedure_code", NoKeys)
        procedure_code_str ==
            Join(<< Key(proc_code, "code", <<"24606-6">>),
                    Key(proc_code, "display", <<"Mammogram Diagnostic Report">>),
                    <<"LN">> >>, <<"^">>)
        ordering_provider ==
            Join(<< Key(provider, "id", <<"UNKNOWN">>),
                    Key(provider, "name", <<"Unknown Physician">>) >>, <<"^">>)
        date == Key(study, "date", <<>>)
        observation_datetime ==
            IF date # <<>> THEN Replace(date, "-", <<>>) \o <<"000000">> ELSE <<>>
        accession_number == Key(study, "accession_number", <<>>)
    IN  Ok(Join(<< <<"OBR">>, IntStr(obr_set_id), <<>>, accession_number,
                   procedure_code_str, <<>>, <<>>, <<>>, observation_datetime,
                   <<>>, <<>>, <<>>, <<>>, <<>>, <<>>, <<>>,
                   ordering_provider, <<>>, <<>>, accession_number,
                   <<>>, <<>>, <<>>, <<>>, <<>>,
                   Key(study, "modality", <<>>) >>, <<"|">>))

ObrFromDicom(d, obr_set_id) ==
    LET study_date       == Get(d.StudyDate, <<>>)
        accession_number == Get(d.AccessionNumber, <<>>)
        modality         == Get(d.Modality, <<>>)
        pcs              == d.ProcedureCodeSequence
        coded            == pcs # <<>>
        code_value   == IF coded THEN Get(pcs[1].CodeValue, <<"24606-6">>)
                        ELSE <<"24606-6">>
        code_meaning == IF coded
                        THEN Get(pcs[1].CodeMeaning, <<"Mammogram Diagnostic Report">>)
                        ELSE <<"Mammogram Diagnostic Report">>
        coding_scheme == IF coded THEN Get(pcs[1].CodingSchemeDesignator, <<"LN">>)
                         ELSE <<"LN">>
        procedure_code_str == Join(<<code_value, code_meaning, coding_scheme>>, <<"^">>)
        ids          == d.ReferringPhysicianIdentificationSequence
        provider_id  == IF ids # <<>> THEN Get(ids[1].IDNumber, <<"UNKNOWN">>)
                        ELSE <<>>
        provider_name == Get(d.ReferringPhysicianName, <<"Anonymous Physician">>)
        ordering_provider == Join(<<provider_id, provider_name>>, <<"^">>)
        observation_datetime ==
            IF study_date # <<>> THEN study_date \o <<"000000">> ELSE <<>>
    IN  IF accession_number = <<>> THEN Raise("ValueError")
        ELSE Ok(Join(<< <<"OBR">>, IntStr(obr_set_id), <<>>, accession_number,
                        procedure_code_str, <<>>, <<>>, <<>>, observation_datetime,
                        <<>>, <<>>, <<>>, <<>>, <<>>, <<>>, <<>>,
                        ordering_provider, <<>>, accession_number,
                        <<>>, <<>>, <<>>, <<>>, <<>>,
                        modality, <<"F">> >>, <<"|">>))

create_obr_segment(d, obr_set_id) ==
    IF IsDict(d) THEN ObrFromJson(d, obr_set_id)
    ELSE IF IsFileDataset(d) THEN ObrFromDicom(d, obr_set_id)
    ELSE Raise("ValueError")

\* create_zds_segment without the required-field check
create_zds_segment_unchecked(d) ==
    IF IsDict(d)
    THEN Ok(<<"ZDS", "|">> \o Strip(Key(Section(d, "study"), "study_instance_uid", <<>>)))
    ELSE Ok(<<"ZDS", "|">> \o Strip(Get(d.SOPInstanceUID, <<>>)) \o <<"|">>
              \o Strip(Get(d.SeriesInstanceUID, <<>>)) \o <<"|">>
              \o Strip(Get(d.StudyInstanceUID, <<>>)))

create_zds_segment(d) ==
    IF IsDict(d) THEN
        LET study_instance_uid ==
                Strip(Key(Section(d, "study"), "study_instance_uid", <<>>))
        IN  IF study_instance_uid = <<>> THEN Raise("ValueError")
            ELSE Ok(<<"ZDS", "|">> \o study_instance_uid)
    ELSE IF IsFileDataset(d) THEN
        LET study_instance_uid  == Strip(Get(d.StudyInstanceUID, <<>>))
            series_instance_uid == Strip(Get(d.SeriesInstanceUID, <<>>))
            sop_instance_uid    == Strip(Get(d.SOPInstanceUID, <<>>))
        IN  IF study_instance_uid = <<>> THEN Raise("ValueError")
            ELSE Ok(<<"ZDS", "|">> \o sop_instance_uid \o <<"|">> \o series_instance_uid
                      \o <<"|">> \o study_instance_uid)
    ELSE Raise("TypeError")

\* --------------------------------------------- OBX block of the SR report
\* str.split(sep, 1): the text before the first sep, and the text after it
RECURSIVE BeforeFirst(_, _)
BeforeFirst(s, sep) ==
    IF s = <<>> \/ Head(s) = sep THEN <<>> ELSE <<Head(s)>> \o BeforeFirst(Tail(s), sep)

RECURSIVE AfterFirst(_, _)
AfterFirst(s, sep) ==
    IF s = <<>> THEN <<>>
    ELSE IF Head(s) = sep THEN Tail(s)
    ELSE AfterFirst(Tail(s), sep)

ObxReportSegment(i, tag, text) ==
    <<"OBX", "|">> \o IntStr(i) \o <<"|", "ST", "|", tag, "^", "^", "AIENGINE", "|", "|">>
        \o text \o <<"|", "|", "|", "|", "|", "|", "F">>

\* ObxLineStep without the "i += 1" between the title and the result segment
ObxLineStepSameId(st, line) ==
    IF Strip(line) = <<>> THEN
        IF st.heading = <<"Image Library">>
        THEN [st EXCEPT !.segs = Append(@, ObxReportSegment(st.i, "IMAGELIBRARY", <<"DXm image">>)),
                        !.i = @ + 1]
        ELSE st
    ELSE IF Len(line) - Len(LStripSpaces(line)) = 0 THEN
        IF Contains(line, "=") THEN
            LET line1 == Strip(BeforeFirst(line, "="))
                line2 == Strip(AfterFirst(line, "="))
            IN  [st EXCEPT !.segs = @ \o << ObxReportSegment(st.i, "TITLETAG", line1),
                                           ObxReportSegment(st.i, "RESULTSTAG",
                                                            LStripSpaces(line2)) >>,
                           !.i = @ + 1,
                           !.heading = line]
        ELSE [st EXCEPT !.segs = Append(@, ObxReportSegment(st.i, "TITLETAG", line)),
                        !.i = @ + 1,
                        !.heading = line]
    ELSE [st EXCEPT !.segs = Append(@, ObxReportSegment(st.i, "RESULTSTAG", line)),
                    !.i = @ + 1]

\* one pass of the loop of create_obx_segments over a line
ObxLineStep(st, line) ==
    IF Strip(line) = <<>> THEN
        IF st.heading = <<"Image Library">>
        THEN [st EXCEPT !.segs = Append(@, ObxReportSegment(st.i, "IMAGELIBRARY", <<"DXm image">>)),
                        !.i = @ + 1]
        ELSE st
    ELSE IF Len(line) - Len(LStripSpaces(line)) = 0 THEN
        IF Contains(line, "=") THEN
            LET line1 == Strip(BeforeFirst(line, "="))
                line2 == Strip(AfterFirst(line, "="))
            IN  [st EXCEPT !.segs = @ \o << ObxReportSegment(st.i, "TITLETAG", line1),
                                           ObxReportSegment(st.i + 1, "RESULTSTAG",
                                                            LStripSpaces(line2)) >>,
                           !.i = @ + 2,
                           !.heading = line]
        ELSE [st EXCEPT !.segs = Append(@, ObxReportSegment(st.i, "TITLETAG", line)),
                        !.i = @ + 1,
                        !.heading = line]
    ELSE [st EXCEPT !.segs = Append(@, ObxReportSegment(st.i, "RESULTSTAG", line)),
                    !.i = @ + 1]

RECURSIVE ObxLines(_, _)
ObxLines(st, lines) ==
    IF lines = <<>> THEN st ELSE ObxLines(ObxLineStep(st, Head(lines)), Tail(lines))

create_obx_segments(rep) ==
    Join(ObxLines([segs |-> <<>>, i |-> 1, heading |-> <<>>],
                  Split(rep, "\n")).segs, <<"\n">>)

generate_obx_from_mammo_sr(ds) == create_obx_segments(extract_sr_report(ds))

\* str.split(): the words between runs of whitespace
RECURSIVE WordsFrom(_, _)
WordsFrom(s, cur) ==
    IF s = <<>> THEN (IF cur = <<>> THEN <<>> ELSE <<cur>>)
    ELSE IF Head(s) \in Whitespace
         THEN (IF cur = <<>> THEN <<>> ELSE <<cur>>) \o WordsFrom(Tail(s), <<>>)
         ELSE WordsFrom(Tail(s), Append(cur, Head(s)))

Words(s) == WordsFrom(s, <<>>)

LowerWord(w) ==
    CASE w = <<"HTML">> -> <<"html">> [] w = <<"RTF">> -> <<"rtf">>
      [] w = <<"TEXT">> -> <<"text">> [] OTHER -> w

ObxFromFinding(idx, finding) ==
    LET ftype == LowerWord(Key(finding, "type", <<"text">>))
        value == Join(Words(Key(finding, "value", <<>>)), <<" ">>)
        tag   == IF ftype = <<"rtf">> THEN <<"RTFCRTAG">>
                 ELSE IF ftype = <<"html">> THEN <<"HTMLCRTAG">>
                 ELSE <<"RESULTSTAG">>
        obx_2 == IF ftype = <<"rtf">> THEN <<"FT">> ELSE <<"ST">>
    IN  Join(<< <<"OBX">>, IntStr(idx), obx_2, tag \o <<"^", "^", "AIENGINE">>, <<>>,
                value, <<>>, <<>>, <<>>, <<>>, <<>>, <<"F">> >>, <<"|">>)

ObxFromJson(d) ==
    LET findings == Sub(d, "findings", <<>>)
    IN  [idx \in 1..Len(findings) |-> ObxFromFinding(idx, findings[idx])]

create_obx_report_segments(d) ==
    IF IsDict(d) THEN
        (IF \E idx \in 1..Len(Sub(d, "findings", <<>>)) :
                "str" \in DOMAIN Sub(d, "findings", <<>>)[idx]
         THEN Raise("AttributeError")   \* finding.get on a str
         ELSE Ok(Join(ObxFromJson(d), <<"\n">>)))
    ELSE IF IsFileDataset(d) THEN Ok(generate_obx_from_mammo_sr(d))
    ELSE Raise("TypeError")

\* ------------------------------------------ OBX block of UID references
\* sop_uid_map.get(sop_uid, ('', '')): the last evidence entry for the UID
RECURSIVE SopUidMap(_, _)
SopUidMap(evidence, sop_uid) ==
    IF evidence = <<>> THEN [series |-> <<>>, study |-> <<>>]
    ELSE LET e == evidence[Len(evidence)]
         IN  IF e.sop = sop_uid THEN [series |-> e.series, study |-> e.study]
             ELSE SopUidMap(SubSeq(evidence, 1, Len(evidence) - 1), sop_uid)

UidRow(identifier, sub_id, value) ==
    [identifier |-> identifier, sub_id |-> IntStr(sub_id), value |-> value]

\* the reference rows without the test against the UIDs already seen
RECURSIVE WalkRefsRepeated(_, _, _)
WalkRefsRepeated(ds, refs, st) ==
    IF refs = <<>> THEN st
    ELSE LET ref == Head(refs)
             sop_uid == ref.ReferencedSOPInstanceUID
             m == SopUidMap(ds.Evidence, sop_uid)
         IN  WalkRefsRepeated(ds, Tail(refs),
                    [ obx_data |-> st.obx_data \o
                         << UidRow(<<"STUDYINSTANCEUID", "^", "Study Instance UID", "^", "99IHE">>,
                                   st.sub_id, m.study),
                            UidRow(<<"SERIESINSTANCEUID", "^", "Series Instance UID", "^", "99IHE">>,
                                   st.sub_id, m.series),
                            UidRow(<<"SOPINSTANCEUID", "^", "SOP Instance UID", "^", "99IHE">>,
                                   st.sub_id, sop_uid),
                            UidRow(<<"SOPCLASSUID", "^", "SOP Class UID", "^", "99IHE">>,
                                   st.sub_id, ref.ReferencedSOPClassUID) >>,
                      sub_id |-> st.sub_id + 1,
                      seen |-> st.seen \cup {sop_uid} ])

RECURSIVE WalkRefs(_, _, _)
WalkRefs(ds, refs, st) ==
    IF refs = <<>> THEN st
    ELSE LET ref == Head(refs)
             sop_uid == ref.ReferencedSOPInstanceUID
             m == SopUidMap(ds.Evidence, sop_uid)
         IN  IF sop_uid \in st.seen THEN WalkRefs(ds, Tail(refs), st)
             ELSE WalkRefs(ds, Tail(refs),
                    [ obx_data |-> st.obx_data \o
                         << UidRow(<<"STUDYINSTANCEUID", "^", "Study Instance UID", "^", "99IHE">>,
                                   st.sub_id, m.study),
                            UidRow(<<"SERIESINSTANCEUID", "^", "Series Instance UID", "^", "99IHE">>,
                                   st.sub_id, m.series),
                            UidRow(<<"SOPINSTANCEUID", "^", "SOP Instance UID", "^", "99IHE">>,
                                   st.sub_id, sop_uid),
                            UidRow(<<"SOPCLASSUID", "^", "SOP Class UID", "^", "99IHE">>,
                                   st.sub_id, ref.ReferencedSOPClassUID) >>,
                      sub_id |-> st.sub_id + 1,
                      seen |-> st.seen \cup {sop_uid} ])

RECURSIVE walk_content_sequence(_, _, _)
walk_content_sequence(ds, seq, st) ==
    IF seq = <<>> THEN st
    ELSE LET item == ds.Content[Head(seq)]
             st1  == WalkRefs(ds, item.ReferencedSOPSequence, st)
             st2  == walk_content_sequence(ds, ContentSequence(ds.Content, Head(seq)), st1)
         IN  walk_content_sequence(ds, Tail(seq), st2)

UidRows(ds) ==
    << UidRow(<<"SRINSTANCEUID", "^", "SR Instance UID", "^", "99IHE">>, 1, ds.SOPInstanceUID) >>
    \o (IF ds.hasContentSequence
        THEN walk_content_sequence(ds, ContentSequence(ds.Content, 0),
                                   [obx_data |-> <<>>, sub_id |-> 2, seen |-> {}]).obx_data
        ELSE <<>>)

FormatUidRow(i, row) ==
    <<"OBX", "|">> \o IntStr(i) \o <<"|", "HD", "|">> \o row.identifier \o <<"|">>
        \o row.sub_id \o <<"|">> \o row.value \o <<"|", "|", "|", "|", "|", "|", "F">>

generate_sr_obx_UID_segments(ds) ==
    IF IsDict(ds) \/ ~Has(ds.SOPInstanceUID) THEN Raise("AttributeError")
    ELSE LET rows == UidRows(ds)
         IN  Ok(Join([i \in 1..Len(rows) |-> FormatUidRow(i, rows[i])], <<"\n">>))

\* ------------------------------------------------------------ input space
BlankItem ==
    [ parent |-> 0, ValueType |-> ABSENT, ConceptName |-> ABSENT,
      TextValue |-> ABSENT, CodeMeaning |-> ABSENT, CodeValue |-> ABSENT,
      CodingSchemeDesignator |-> ABSENT, NumericValue |-> ABSENT,
      UnitMeaning |-> ABSENT, Date |-> ABSENT, Time |-> ABSENT,
      ReferencedSOPSequence |-> <<>>,
      ConceptNameCodeValue |-> ABSENT, ConceptNameScheme |-> ABSENT,
      ObservationDateTime |-> ABSENT, ObservationUID |-> ABSENT ]

ContainerItem(name) ==
    [BlankItem EXCEPT !.ValueType = <<"CONTAINER">>, !.ConceptName = name]

ImageItem == [BlankItem EXCEPT !.ValueType = <<"IMAGE">>]

TextItem(name, val) ==
    [BlankItem EXCEPT !.ValueType = <<"TEXT">>, !.ConceptName = name, !.TextValue = val]

CodeItem ==
    [BlankItem EXCEPT !.ValueType = <<"CODE">>, !.ConceptName = <<"Assessment">>,
                      !.CodeMeaning = <<"Benign">>, !.CodeValue = <<"F-01712">>,
                      !.CodingSchemeDesignator = <<"SRT">>]

NumItem ==
    [BlankItem EXCEPT !.ValueType = <<"NUM">>, !.ConceptName = <<"Size">>,
                      !.NumericValue = <<"12">>, !.UnitMeaning = <<"mm">>]

DateItem ==
    [BlankItem EXCEPT !.ValueType = <<"DATE">>, !.ConceptName = <<"Study Date">>,
                      !.Date = <<"20250512">>]

TimeItem ==
    [BlankItem EXCEPT !.ValueType = <<"TIME">>, !.ConceptName = <<"Study Time">>,
                      !.Time = <<"101500">>]

UnknownItem(vt) ==
    [BlankItem EXCEPT !.ValueType = vt, !.ConceptName = <<"Trace">>]

Trees(kinds, maxn) ==
    UNION { { [i \in 1..n |-> [k[i] EXCEPT !.parent = shape[i]]] :
                shape \in TreeShapes(n), k \in [1..n -> kinds] } : n \in 0..maxn }

BlankDataset ==
    [ kind |-> "dicom", SpecificCharacterSet |-> ABSENT, PatientID |-> ABSENT,
      PatientName |-> [family_name |-> <<>>, given_name |-> <<>>], PatientBirthDate |-> ABSENT, PatientSex |-> ABSENT,
      StudyDate |-> ABSENT, StudyTime |-> ABSENT, AccessionNumber |-> ABSENT,
      Modality |-> ABSENT, ProcedureCodeSequence |-> <<>>,
      ReferringPhysicianIdentificationSequence |-> <<>>,
      ReferringPhysicianName |-> ABSENT, StudyInstanceUID |-> ABSENT,
      SeriesInstanceUID |-> ABSENT, SOPInstanceUID |-> ABSENT, Evidence |-> <<>>,
      hasContentSequence |-> FALSE, Content |-> <<>> ]

FullDataset ==
    [ BlankDataset EXCEPT
        !.SpecificCharacterSet = <<"ISO_IR 100">>, !.PatientID = <<"P1">>,
        !.PatientName = [family_name |-> <<"Doe">>, given_name |-> <<"Jane">>],
        !.PatientBirthDate = <<"19850315">>, !.PatientSex = <<"F">>,
        !.StudyDate = <<"20250512">>, !.StudyTime = <<"101500">>,
        !.AccessionNumber = <<"ACC1">>, !.Modality = <<"SR">>,
        !.ReferringPhysicianName = <<"Carter">>, !.StudyInstanceUID = <<"1.2.3">>,
        !.SeriesInstanceUID = <<"1.2.3.4">>, !.SOPInstanceUID = <<"1.2.3.4.5">> ]

ImageRefItem(sop_uid) ==
    [ImageItem EXCEPT !.ReferencedSOPSequence =
        << [ReferencedSOPInstanceUID |-> sop_uid, ReferencedSOPClassUID |-> <<"1.2.840.MG">>] >>]

FullRecord ==
    [ kind |-> "dict",
      patient  |-> [ id |-> <<"P1">>,
                     name |-> << [family |-> <<"Doe">>, given |-> << <<"Jane">> >>] >>,
                     gender |-> <<"f", "e", "m", "a", "l", "e">>,
                     birth_date |-> <<"1985", "-", "03", "-", "15">> ],
      provider |-> [ id |-> <<"PROV001">>, name |-> <<"Dr. Emily Carter">> ],
      study    |-> [ date |-> <<"2025", "-", "05", "-", "12">>,
                     accession_number |-> <<"ACC1">>, modality |-> <<"MG">>,
                     procedure_code |-> [ code |-> <<"24606-6">>,
                                          display |-> <<"Mammogram Diagnostic Report">> ],
                     study_instance_uid |-> <<"1.2.3">> ],
      findings |-> <<>> ]

WithContent(ds, nodes) ==
    [ds EXCEPT !.hasContentSequence = TRUE, !.Content = nodes]

\* ---------------------------------------------- specification: the walker
CoreItemKinds ==
    { ContainerItem(<<"Image Library">>), ContainerItem(ABSENT), ImageItem,
      TextItem(<<"Finding">>, <<"a", "=", "b">>), NumItem, UnknownItem(<<"WAVEFORM">>) }

AllItemKinds ==
    CoreItemKinds \cup { CodeItem, DateItem, TimeItem, UnknownItem(ABSENT) }

\* a dataset with nothing but the study date and time
DatedDataset ==
    [BlankDataset EXCEPT !.StudyDate = <<"2", "0", "2", "5", "0", "5", "1", "2">>,
                         !.StudyTime = <<"1", "0", "1", "5", "0", "0">>]

WalkDatasets ==
    {DatedDataset}
    \cup { WithContent(DatedDataset, t) : t \in Trees(CoreItemKinds, MaxNodes) }
    \cup { WithContent(DatedDataset, t) : t \in Trees(AllItemKinds, MaxRichNodes) }

InitWalk ==
    /\ pc = "start"
    /\ data \in WalkDatasets
    /\ output = <<>>
    /\ report = <<>>
    /\ hl7_list = <<>>
    /\ result = NONE
    /\ raised = NONE
    /\ FhirIdle
    /\ BuildIdle
    /\ ServeIdle
    /\ ValidateIdle

CallExtractSrReport ==
    /\ pc = "start"
    /\ output' = (IF data.hasContentSequence THEN sr_lines(data) ELSE <<>>)
    /\ report' = extract_sr_report(data)
    /\ pc' = "done"
    /\ UNCHANGED <<serve_vars, build_vars, data, hl7_list, result, raised, fhir_vars,
                   validate_vars>>

\* generate_obx_from_mammo_sr: the report handed to create_obx_segments
CallCreateObxSegments ==
    /\ pc = "done"
    /\ result' = create_obx_segments(report)
    /\ pc' = "obx"
    /\ UNCHANGED <<serve_vars, build_vars, data, output, report, hl7_list, raised,
                   fhir_vars, validate_vars>>


\* ------------------------------------------------------------ claim C1
RECURSIVE Depth(_, _)
Depth(nodes, i) == IF nodes[i].parent = 0 THEN 0 ELSE 1 + Depth(nodes, nodes[i].parent)

RECURSIVE InSubtree(_, _, _)
InSubtree(nodes, a, d) ==
    IF d = a THEN TRUE
    ELSE IF d = 0 THEN FALSE
    ELSE InSubtree(nodes, a, nodes[d].parent)

\* pos[i] is the place of item i in the output
IsPreOrder(nodes, pos) ==
    LET n == Len(nodes) IN
    /\ \A c \in 1..n : nodes[c].parent # 0 => pos[nodes[c].parent] < pos[c]
    /\ \A i, j \in 1..n :
         (i < j /\ nodes[i].parent = nodes[j].parent) =>
            \A d \in 1..n : InSubtree(nodes, i, d) => pos[d] < pos[j]

LeadingSpaces(line) == Len(line) - Len(LStripSpaces(line))

escape_hl7_backslash_last(text) ==
    Replace(Replace(Replace(Replace(text,
        "|", <<"\\", "F", "\\">>),
        "^", <<"\\", "S", "\\">>),
        "&", <<"\\", "T", "\\">>),
        "\\", <<"\\", "E", "\\">>)

escape_hl7(text) ==
    Replace(Replace(Replace(Replace(text,
        "\\", <<"\\", "E", "\\">>),
        "|", <<"\\", "F", "\\">>),
        "^", <<"\\", "S", "\\">>),
        "&", <<"\\", "T", "\\">>)

\* ------------------------------------------ specification: escape_hl7
EscapeAlphabet == {"\\", "|", "^", "&", "a"}

Texts(alphabet, maxlen) == UNION { [1..n -> alphabet] : n \in 0..maxlen }

InitEscape ==
    /\ pc = "start"
    /\ data \in Texts(EscapeAlphabet, MaxTextLen)
    /\ output = <<>>
    /\ report = <<>>
    /\ hl7_list = <<>>
    /\ result = NONE
    /\ raised = NONE
    /\ FhirIdle
    /\ BuildIdle
    /\ ServeIdle
    /\ ValidateIdle

CallEscapeHl7 ==
    /\ pc = "start"
    /\ result' = escape_hl7(data)
    /\ pc' = "done"
    /\ UNCHANGED <<serve_vars, build_vars, data, output, report, hl7_list, raised,
                   fhir_vars, validate_vars>>

NextEscape == CallEscapeHl7

SpecEscape == InitEscape /\ [][NextEscape]_vars

\* ------------------------------------------------------------ claim C8
EscapeOfChar(c) ==
    IF c = "\\" THEN <<"\\", "E", "\\">>
    ELSE IF c = "|" THEN <<"\\", "F", "\\">>
    ELSE IF c = "^" THEN <<"\\", "S", "\\">>
    ELSE IF c = "&" THEN <<"\\", "T", "\\">>
    ELSE <<c>>

\* C8: escape_hl7 returns the character-by-character substitution of its
\* input: each delimiter becomes its escape sequence once, every other
\* character is kept, and the backslashes an escape sequence brings in are
\* not escaped again.
C8_EscapeIsCharwise ==
    pc = "done" => result = Concat([k \in 1..Len(data) |-> EscapeOfChar(data[k])])

C8_Witness ==
    /\ pc = "done"
    /\ data = <<"|", "\\">>
    /\ result = <<"\\", "F", "\\", "\\", "E", "\\">>

\* ------------------------------------- specification: create_hl7_message
\* the call that follows a stage of create_hl7_message, with PID and OBR swapped
StageAfterSwapped(p) ==
    CASE p = "msh" -> "obr" [] p = "obr" -> "pid" [] p = "pid" -> "zds"
      [] p = "zds" -> "uid" [] p = "uid" -> "obx" [] p = "obx" -> "join"

StageAfter(p) ==
    CASE p = "msh" -> "pid" [] p = "pid" -> "obr" [] p = "obr" -> "zds"
      [] p = "zds" -> "uid" [] p = "uid" -> "obx" [] p = "obx" -> "join"

\* a failing stage handled by returning what was built so far
ResultOnRaiseJoined(list) == Join(list, <<"\n">>)

\* an exception of a stage leaves create_hl7_message: nothing is returned
ResultOnRaise(list) == NONE

Stage(p, r) ==
    /\ IF r.ok
       THEN /\ hl7_list' = Append(hl7_list, r.val)
            /\ pc' = StageAfter(p)
            /\ UNCHANGED <<result, raised>>
       ELSE /\ pc' = "raised"
            /\ raised' = <<r.exc, p>>
            /\ result' = ResultOnRaise(hl7_list)
            /\ UNCHANGED hl7_list
    /\ UNCHANGED <<serve_vars, build_vars, data, output, report, fhir_vars,
                   validate_vars>>

StageMSH ==
    /\ pc = "msh"
    /\ Stage("msh", create_hl7_msh_segment(data))

StagePID ==
    /\ pc = "pid"
    /\ Stage("pid", create_hl7_pid_segment(data))

StageOBR ==
    /\ pc = "obr"
    /\ Stage("obr", create_obr_segment(data, 1))

StageZDS ==
    /\ pc = "zds"
    /\ Stage("zds", create_zds_segment(data))

StageUID ==
    /\ pc = "uid"
    /\ Stage("uid", generate_sr_obx_UID_segments(data))

StageOBX ==
    /\ pc = "obx"
    /\ Stage("obx", create_obx_report_segments(data))

ReturnMessage ==
    /\ pc = "join"
    /\ result' = Join(hl7_list, <<"\n">>)
    /\ pc' = "done"
    /\ UNCHANGED <<serve_vars, build_vars, data, output, report, hl7_list, raised,
                   fhir_vars, validate_vars>>

Charsets == {ABSENT, <<"ISO_IR 100">>}

PatientIds == {<<"P1">>, <<"A", "|", "B">>}

Accessions == {ABSENT, <<>>, <<"ACC1">>}

StudyUids == {ABSENT, <<>>, <<" ">>, <<"1.2.3">>, <<"1.2.3", " ">>}

SopUids == {ABSENT, <<"1.2.3.4.5">>}

HL7ItemKinds ==
    { ContainerItem(<<"Image Library">>), ImageRefItem(<<"img1">>),
      ImageRefItem(<<"img2">>), TextItem(<<"Finding">>, <<"a", "=", "b">>) }

SampleTree ==
    << ContainerItem(<<"Image Library">>),
       [ImageRefItem(<<"img1">>) EXCEPT !.parent = 1] >>

FindingKinds ==
    { [type |-> <<"text">>, value |-> <<"Mass", " ", " ", "seen">>],
      [type |-> <<"HTML">>,
       value |-> <<"<html>", "<body>", "<p>", "X", "</p>", "</body>", "</html>">>] }

HL7Datasets ==
    { [FullDataset EXCEPT !.SpecificCharacterSet = cs, !.PatientID = pid,
                          !.AccessionNumber = acc, !.StudyInstanceUID = uid,
                          !.SOPInstanceUID = sop, !.hasContentSequence = (c # <<>>),
                          !.Content = c] :
        cs \in Charsets, pid \in PatientIds, acc \in Accessions, uid \in StudyUids,
        sop \in SopUids, c \in {<<>>, SampleTree} }
    \cup { WithContent(FullDataset, t) : t \in Trees(HL7ItemKinds, MaxNodes) }

HL7Records ==
    { [FullRecord EXCEPT !.patient.id = pid, !.study.accession_number = acc,
                         !.study.study_instance_uid = uid, !.findings = f] :
        pid \in PatientIds, acc \in Accessions, uid \in StudyUids,
        f \in Texts(FindingKinds, MaxFindings) }

InitHL7 ==
    /\ pc = "msh"
    /\ data \in HL7Datasets \cup HL7Records
    /\ output = <<>>
    /\ report = <<>>
    /\ hl7_list = <<>>
    /\ result = NONE
    /\ raised = NONE
    /\ FhirIdle
    /\ BuildIdle
    /\ ServeIdle
    /\ ValidateIdle

NextHL7 ==
    \/ StageMSH
    \/ StagePID
    \/ StageOBR
    \/ StageZDS
    \/ StageUID
    \/ StageOBX
    \/ ReturnMessage

SpecHL7 == InitHL7 /\ [][NextHL7]_vars

\* ----------------------------------------------- reading an HL7 message
NonEmpty(seg) == seg # <<>>

Segments(msg) == SelectSeq(Split(msg, "\n"), NonEmpty)

Fields(seg) == Split(seg, "|")

IsOBX(seg) == seg[1] = "OBX"

IsUidOBX(seg) == IsOBX(seg) /\ Contains(seg, "99IHE")

IsReportOBX(seg) == IsOBX(seg) /\ Contains(seg, "AIENGINE")

SetId(seg) == Fields(seg)[2]

StageDone(k) == Len(hl7_list) >= k

RaisedAt(p) == raised # NONE /\ raised[2] = p

AccessionOf(d) ==
    IF IsDict(d) THEN Key(Section(d, "study"), "accession_number", <<>>)
    ELSE Get(d.AccessionNumber, <<>>)

StudyUidOf(d) ==
    IF IsDict(d) THEN Key(Section(d, "study"), "study_instance_uid", <<>>)
    ELSE Get(d.StudyInstanceUID, <<>>)

PatientIdOf(d) ==
    IF IsDict(d) THEN Key(Section(d, "patient"), "id", <<>>)
    ELSE Get(d.PatientID, <<>>)

\* ------------------------------------------------------------ claim C2
\* C2: in every returned message the OBX Set-IDs, read in message order over
\* the UID block and then the report block, are 1, 2, 3, ...: strictly
\* increasing from 1, the report block continuing where the UID block ended.
C2_SetIdsContinue ==
    pc = "done" =>
        LET obx == SelectSeq(Segments(result), IsOBX)
        IN  \A k \in 1..Len(obx) : SetId(obx[k]) = IntStr(k)

\* ------------------------------------------------------------ claim C3
\* C3: every returned message reads MSH, PID, OBR, ZDS, then OBX segments
\* only, and among those no report OBX precedes a UID-reference OBX.
C3_SegmentOrder ==
    pc = "done" =>
        LET segs == Segments(result)
        IN  /\ Len(segs) >= 5
            /\ segs[1][1] = "MSH"
            /\ segs[2][1] = "PID"
            /\ segs[3][1] = "OBR"
            /\ segs[4][1] = "ZDS"
            /\ \A k \in 5..Len(segs) : IsOBX(segs[k])
            /\ IsUidOBX(segs[5])
            /\ \A j, k \in 5..Len(segs) :
                  (IsReportOBX(segs[j]) /\ IsUidOBX(segs[k])) => k < j

C3_Witness ==
    /\ pc = "done"
    /\ Len(SelectSeq(Segments(result), IsUidOBX)) = 9
    /\ Len(SelectSeq(Segments(result), IsReportOBX)) >= 2

\* ------------------------------------------------------------ claim C4
\* C4: create_hl7_message hands its caller either nothing (a stage raised)
\* or the complete message: the outputs of all six stages, joined in order,
\* with the four header segments and the UID block present.  (The report
\* block is the output of the sixth stage; it has no segment when the
\* document renders no line.)
C4_NoPartialMessage ==
    /\ raised # NONE => (pc = "raised" /\ result = NONE)
    /\ pc = "done" => result # NONE
    /\ result # NONE =>
          /\ pc = "done"
          /\ Len(hl7_list) = 6
          /\ result = Join(hl7_list, <<"\n">>)
          /\ hl7_list[1][1] = "MSH"
          /\ hl7_list[2][1] = "PID"
          /\ hl7_list[3][1] = "OBR"
          /\ hl7_list[4][1] = "ZDS"
          /\ IsUidOBX(hl7_list[5])
          /\ hl7_list[6] = create_obx_report_segments(data).val

C4_Witness ==
    /\ pc = "raised"
    /\ RaisedAt("zds")
    /\ Len(hl7_list) = 3
    /\ result = NONE

\* ------------------------------------------------------------ claim C5
\* C5: create_obr_segment raises when the accession number is absent or
\* empty, for a dict record as for a DICOM dataset, and otherwise returns an
\* OBR segment whose filler order number (OBR-3) is the accession number.
C5_AccessionRequired ==
    /\ StageDone(3) =>
          /\ AccessionOf(data) # <<>>
          /\ Fields(hl7_list[3])[4] = AccessionOf(data)
    /\ RaisedAt("obr") => AccessionOf(data) = <<>>

\* ------------------------------------------------------------ claim C6
\* C6: create_zds_segment raises, returning no segment, when the study
\* instance UID is absent, empty or only whitespace; otherwise it returns a
\* ZDS segment whose last field is the UID (surrounding whitespace removed).
C6_StudyUidRequired ==
    LET uid == Strip(StudyUidOf(data)) IN
    /\ StageDone(4) =>
          /\ uid # <<>>
          /\ hl7_list[4][1] = "ZDS"
          /\ Fields(hl7_list[4])[Len(Fields(hl7_list[4]))] = uid
    /\ RaisedAt("zds") => (uid = <<>> /\ Len(hl7_list) = 3)
    /\ (StageDone(3) /\ pc # "zds" /\ uid = <<>>) => RaisedAt("zds")

C6_Witness ==
    /\ RaisedAt("zds")
    /\ StudyUidOf(data) = <<" ">>

\* ------------------------------------------------------------ claim C7
\* C7: a value the builders insert has its delimiter characters escaped, so
\* that it never changes the number or position of the fields: the PID
\* segment always has its 18 fields and PID-3 reads back as the escaped
\* patient identifier.
C7_DelimitersEscaped ==
    StageDone(2) =>
        /\ Len(Fields(hl7_list[2])) = 18
        /\ Fields(hl7_list[2])[4] = escape_hl7(PatientIdOf(data))

\* ======================================================= FHIR conversion
PyModule == <<"dicom_to_fhir">>

GenrateModule == <<"fhir_message_genrate">>

\* generate_uuid: the n-th identifier handed out; no two calls give the same
generate_uuid(n) == <<"uuid4-", ToString(n)>>

Urn(id) == <<"urn:uuid:">> \o id

PatientSlash(id) == <<"Patient", "/">> \o id

Min(a, b) == IF a < b THEN a ELSE b

\* s[a:b]
Slice(s, a, b) == SubSeq(s, a + 1, Min(b, Len(s)))

Digits == {"0", "1", "2", "3", "4", "5", "6", "7", "8", "9"}

IsDigit(s) == s # <<>> /\ \A k \in 1..Len(s) : s[k] \in Digits

LowerChar(c) ==
    CASE c = "F" -> "f" [] c = "M" -> "m" [] c = "O" -> "o" [] OTHER -> c

Lower(s) == [k \in 1..Len(s) |-> LowerChar(s[k])]

format_dicom_date(date_str) ==
    IF date_str = <<>> THEN <<>>
    ELSE Slice(date_str, 0, 4) \o <<"-">> \o Slice(date_str, 4, 6) \o <<"-">>
            \o Slice(date_str, 6, 8)

HhMmSs(t) == Slice(t, 0, 2) \o <<":">> \o Slice(t, 2, 4) \o <<":">> \o Slice(t, 4, 6)

Div(text) == <<"<div xmlns=\"http://www.w3.org/1999/xhtml\">">> \o text \o <<"</div>">>

Narrative(text) == [status |-> <<"generated">>, div |-> Div(text)]

extract_patient_info(ds, id) ==
    LET patient_id     == Get(ds.PatientID, <<>>)
        family_name    == ds.PatientName.family_name
        given_names    == IF ds.PatientName.given_name = <<>> THEN <<>>
                          ELSE <<ds.PatientName.given_name>>
        raw_birth_date == Strip(Get(ds.PatientBirthDate, <<>>))
        birth_date     == IF Len(raw_birth_date) = 8 /\ IsDigit(raw_birth_date)
                          THEN format_dicom_date(raw_birth_date) ELSE <<>>
        sex            == Lower(Get(ds.PatientSex, <<"unknown">>))
        gender         == IF sex = <<"m">> THEN <<"male">>
                          ELSE IF sex = <<"f">> THEN <<"female">>
                          ELSE <<"other">>
        name           == Join(given_names, <<" ">>) \o <<" ">> \o family_name
    IN  [ resourceType |-> "Patient",
          id           |-> id,
          identifier   |-> << [system |-> <<"http://hospital.smarthealth.org/patient-id">>,
                               value  |-> patient_id] >>,
          name         |-> << [family |-> family_name, given |-> given_names] >>,
          gender       |-> gender,
          birthDate    |-> IF birth_date # <<>> THEN birth_date ELSE ABSENT,
          text         |-> Narrative(<<"Patient: ">> \o Strip(name) \o <<" (ID: ">>
                                        \o patient_id \o <<")">>) ]

extract_study_info(ds, patient_reference, id) ==
    LET study_uid        == Get(ds.StudyInstanceUID, <<>>)
        accession_number == Get(ds.AccessionNumber, <<>>)
        study_date       == Get(ds.StudyDate, <<>>)
        study_time       == Get(ds.StudyTime, <<>>)
        started ==
            IF Len(study_date) = 8
            THEN format_dicom_date(study_date)
                   \o (IF Len(study_time) >= 6
                       THEN <<"T">> \o HhMmSs(study_time) \o <<"Z">> ELSE <<>>)
            ELSE <<>>
    IN  [ resourceType |-> "ImagingStudy",
          id           |-> id,
          identifier   |->
              << [system |-> <<"urn:dicom:uid">>, value |-> study_uid] >>
              \o (IF accession_number # <<>>
                  THEN << [system |-> <<"http://hospital.smarthealth.org/accession-number">>,
                           value  |-> accession_number] >>
                  ELSE <<>>),
          status       |-> <<"registered">>,
          subject      |-> [reference |-> patient_reference],
          started      |-> IF started # <<>> THEN started ELSE ABSENT,
          text         |-> Narrative(<<"ImagingStudy", " Resource">>) ]

\* the effectiveDateTime an Observation gets from the study date and time
StudyEffective(ds) ==
    LET study_date == format_dicom_date(Get(ds.StudyDate, <<>>))
        study_time == Strip(Get(ds.StudyTime, <<>>))
    IN  IF Len(study_time) >= 6 /\ IsDigit(study_time)
        THEN study_date \o <<"T">> \o HhMmSs(study_time) \o <<"Z">>
        ELSE IF study_date # <<>> THEN study_date
        ELSE ABSENT

DefaultCode ==
    [code |-> <<"24606-6">>, display |-> <<"MG Breast Screening">>,
     system |-> <<"http://loinc.org">>]

\* dicom_to_fhir.py: the Observation of a content item that has a TextValue
ItemObservation(ds, item, patient_ref, id) ==
    LET code == IF Has(item.ConceptName)
                THEN [code    |-> Get(item.ConceptNameCodeValue, <<"24606-6">>),
                      display |-> item.ConceptName,
                      system  |-> Get(item.ConceptNameScheme, <<"http://loinc.org">>)]
                ELSE DefaultCode
        value == item.TextValue
        obs_datetime == Strip(Get(item.ObservationDateTime, <<>>))
        effective ==
            IF Get(item.ObservationDateTime, <<>>) # <<>>
            THEN (IF Len(obs_datetime) = 14 /\ IsDigit(obs_datetime)
                  THEN format_dicom_date(Slice(obs_datetime, 0, 8)) \o <<"T">>
                         \o HhMmSs(Slice(obs_datetime, 8, 14)) \o <<"Z">>
                  ELSE ABSENT)
            ELSE IF Has(ds.StudyDate) /\ Has(ds.StudyTime) THEN StudyEffective(ds)
            ELSE ABSENT
    IN  [ resourceType |-> "Observation",
          id           |-> id,
          status       |-> <<"final">>,
          code         |-> [coding |-> <<code>>],
          subject      |-> [reference |-> PatientSlash(patient_ref)],
          valueString  |-> value,
          performer    |-> << [display |-> <<"Radiologist System">>] >>,
          text         |-> Narrative(<<"Observation: ">> \o code.display \o <<" - ">>
                                        \o value),
          effectiveDateTime |-> effective,
          identifier   |-> IF Has(item.ObservationUID)
                           THEN << [system |-> <<"urn:dicom:uid">>,
                                    value  |-> item.ObservationUID] >>
                           ELSE ABSENT ]

\* dicom_to_fhir.py: items in document order, each before its nested items;
\* obs is the list built so far, ids continue after base
RECURSIVE process_content_sequence(_, _, _, _, _)
process_content_sequence(ds, sequence, obs, patient_ref, base) ==
    IF sequence = <<>> THEN obs
    ELSE LET item == ds.Content[Head(sequence)]
             obs1 == IF Has(item.TextValue)
                     THEN Append(obs, ItemObservation(ds, item, patient_ref,
                                        generate_uuid(base + Len(obs) + 1)))
                     ELSE obs
             obs2 == process_content_sequence(ds,
                         ContentSequence(ds.Content, Head(sequence)),
                         obs1, patient_ref, base)
         IN  process_content_sequence(ds, Tail(sequence), obs2, patient_ref, base)

extract_observations(ds, patient_ref, base) ==
    IF ds.hasContentSequence
    THEN Ok(process_content_sequence(ds, ContentSequence(ds.Content, 0), <<>>,
                                     patient_ref, base))
    ELSE Ok(<<>>)

\* fhir_message_genrate.py: the report lines that become an Observation
RECURSIVE FindingLines(_, _)
FindingLines(report_list, heading) ==
    IF report_list = <<>> THEN <<>>
    ELSE LET line           == Head(report_list)
             leading_spaces == Len(line) - Len(LStripSpaces(line))
             heading1       == IF leading_spaces = 0 THEN line ELSE heading
         IN  IF Strip(line) = <<>>
             THEN (IF heading1 = <<"Image Library">> THEN << <<"DXm image">> >> ELSE <<>>)
                    \o FindingLines(Tail(report_list), heading1)
             ELSE <<line>> \o FindingLines(Tail(report_list), heading1)

LineObservation(ds, line, patient_ref, id) ==
    LET line_data    == LStrip(line)
        value_string == IF Contains(line_data, "=")
                        THEN Strip(Split(line_data, "=")[2]) ELSE line_data
    IN  [ resourceType |-> "Observation",
          id           |-> id,
          status       |-> <<"final">>,
          code         |-> [coding |-> << [system |-> <<"http://loinc.org">>] >>],
          subject      |-> [reference |-> PatientSlash(patient_ref)],
          valueString  |-> value_string,
          performer    |-> << [display |-> <<"Radiologist System">>] >>,
          text         |-> Narrative(<<"Observation:">> \o line),
          effectiveDateTime |-> StudyEffective(ds),
          identifier   |-> ABSENT ]

extract_observations_from_report(ds, rep, patient_ref, base) ==
    LET lines == FindingLines(Split(rep, "\n"), <<>>)
    IN  IF lines # <<>> /\ (~Has(ds.StudyDate) \/ ~Has(ds.StudyTime))
        THEN Raise("AttributeError")
        ELSE Ok([k \in 1..Len(lines) |->
                    LineObservation(ds, lines[k], patient_ref, generate_uuid(base + k))])

create_diagnostic_report(patient_ref, obs, ds, id) ==
    LET study_date == format_dicom_date(Get(ds.StudyDate, <<>>))
        raw_time   == Get(ds.StudyTime, <<>>)
        study_time == IF raw_time # <<>> THEN HhMmSs(raw_time) ELSE <<>>
        effective_date_time ==
            IF study_date # <<>> /\ study_time # <<>>
            THEN study_date \o <<"T">> \o study_time \o <<"Z">>
            ELSE study_date
        pcs == ds.ProcedureCodeSequence
        procedure_code ==
            IF pcs # <<>>
            THEN [code    |-> Get(pcs[1].CodeValue, <<"24606-6">>),
                  display |-> Get(pcs[1].CodeMeaning, <<"Mammogram Diagnostic Report">>),
                  system  |-> Get(pcs[1].CodingSchemeDesignator, <<"http://loinc.org">>)]
            ELSE DefaultCode
    IN  [ resourceType |-> "DiagnosticReport",
          id           |-> id,
          status       |-> <<"final">>,
          code         |-> [coding |-> <<procedure_code>>],
          subject      |-> [reference |-> PatientSlash(patient_ref)],
          effectiveDateTime |-> effective_date_time,
          issued       |-> <<"<utcnow>", "Z">>,
          performer    |-> << [display |-> Get(ds.ReferringPhysicianName,
                                               <<"Unknown Physician">>)] >>,
          result       |-> [k \in 1..Len(obs) |-> [reference |-> Urn(obs[k].id)]],
          identifier   |-> << [system |-> <<"urn:dicom:uid">>,
                               value  |-> Get(ds.StudyInstanceUID, <<>>)] >>,
          text         |-> Narrative(<<"Diagnostic Report: ">> \o procedure_code.display) ]

\* ----------------------------------------- specification: dicom_to_fhir
\* obs["subject"]["reference"] = patient_ref, left out
FixSubjectSkipped(obs, patient_ref) == obs

\* obs["subject"]["reference"] = patient_ref
FixSubject(obs, patient_ref) ==
    [obs EXCEPT !.subject = [reference |-> patient_ref]]

\* an entry keeps the resource object itself: what it shows is the object's
\* content when the Bundle is returned
Pointer(obj, idx) == [obj |-> obj, idx |-> idx]

Deref(ptr) ==
    CASE ptr.obj = "patient"           -> patient_resource
      [] ptr.obj = "study_resource"    -> study_resource
      [] ptr.obj = "observations"      -> observations[ptr.idx]
      [] ptr.obj = "diagnostic_report" -> diagnostic_report

Entry(id, ptr) == [fullUrl |-> Urn(id), resource |-> ptr]

ObservationEntries(obs) ==
    [k \in 1..Len(obs) |-> Entry(obs[k].id, Pointer("observations", k))]

\* diagnostic_report = create_diagnostic_report(...) and the two assignments
\* that follow it
ReportFor(patient_id, obs, ds, id) ==
    [create_diagnostic_report(patient_id, obs, ds, id) EXCEPT
        !.subject = [reference |-> Urn(patient_id)],
        !.result  = [k \in 1..Len(obs) |-> [reference |-> Urn(obs[k].id)]]]

\* fhir_message_genrate.py: extract_observations on the walker's report
CallExtractObservations ==
    /\ pc = "obx"
    /\ LET r == extract_observations_from_report(data, report, generate_uuid(1), 1)
       IN  /\ r.ok
           /\ observations' = r.val
           /\ uuids' = 1 + Len(r.val)
    /\ pc' = "observations"
    /\ UNCHANGED <<serve_vars, build_vars, data, output, report, hl7_list, result,
                   raised, module, patient_resource, study_resource, obs_index,
                   diagnostic_report, entries, validate_vars>>

NextWalk ==
    \/ CallExtractSrReport
    \/ CallCreateObxSegments
    \/ CallExtractObservations

SpecWalk == InitWalk /\ [][NextWalk]_vars

ReadReport ==
    /\ pc = "extract_sr_report"
    /\ module = GenrateModule
    /\ report' = extract_sr_report(data)
    /\ pc' = "extract_patient_info"
    /\ UNCHANGED <<serve_vars, build_vars, data, output, hl7_list, result, raised,
                   fhir_vars, validate_vars>>

ExtractPatient ==
    /\ pc = "extract_patient_info"
    /\ patient_resource' = extract_patient_info(data, generate_uuid(uuids + 1))
    /\ uuids' = uuids + 1
    /\ pc' = IF module = GenrateModule THEN "extract_study_info"
             ELSE "extract_observations"
    /\ UNCHANGED <<serve_vars, build_vars, data, output, report, hl7_list, result, raised, module,
                   study_resource, observations, obs_index, diagnostic_report, entries,
                   validate_vars>>

ExtractStudy ==
    /\ pc = "extract_study_info"
    /\ study_resource' = extract_study_info(data, Urn(patient_resource.id),
                                            generate_uuid(uuids + 1))
    /\ uuids' = uuids + 1
    /\ pc' = "extract_observations"
    /\ UNCHANGED <<serve_vars, build_vars, data, output, report, hl7_list, result, raised, module,
                   patient_resource, observations, obs_index, diagnostic_report, entries,
                   validate_vars>>

ExtractObservations ==
    /\ pc = "extract_observations"
    /\ LET r == IF module = GenrateModule
                THEN extract_observations_from_report(data, report,
                                                      patient_resource.id, uuids)
                ELSE extract_observations(data, patient_resource.id, uuids)
       IN  IF r.ok
           THEN /\ observations' = r.val
                /\ uuids' = uuids + Len(r.val)
                /\ obs_index' = 1
                /\ pc' = "for_obs"
                /\ UNCHANGED raised
           ELSE /\ raised' = <<r.exc, "extract_observations">>
                /\ pc' = "raised"
                /\ UNCHANGED <<observations, uuids, obs_index>>
    /\ UNCHANGED <<serve_vars, build_vars, data, output, report, hl7_list, result, module,
                   patient_resource, study_resource, diagnostic_report, entries,
                   validate_vars>>

\* dicom_to_fhir.py: one turn of "for obs in observations"
FixNextSubject ==
    /\ pc = "for_obs"
    /\ module = PyModule
    /\ obs_index <= Len(observations)
    /\ observations' = [observations EXCEPT
                          ![obs_index] = FixSubject(@, Urn(patient_resource.id))]
    /\ obs_index' = obs_index + 1
    /\ UNCHANGED <<pc, serve_vars, build_vars, data, output, report, hl7_list, result, raised, module,
                   patient_resource, study_resource, diagnostic_report, entries, uuids,
                   validate_vars>>

\* fhir_message_genrate.py: one turn of "for obs in observations", whose body
\* also builds the report and the entries
FixNextSubjectAndBuild ==
    /\ pc = "for_obs"
    /\ module = GenrateModule
    /\ obs_index <= Len(observations)
    /\ observations' = [observations EXCEPT
                          ![obs_index] = FixSubject(@, Urn(patient_resource.id))]
    /\ diagnostic_report' = ReportFor(patient_resource.id, observations', data,
                                      generate_uuid(uuids + 1))
    /\ uuids' = uuids + 1
    /\ entries' = << Entry(patient_resource.id, Pointer("patient", 0)),
                     Entry(study_resource.id, Pointer("study_resource", 0)) >>
                  \o ObservationEntries(observations')
                  \o << Entry(diagnostic_report'.id, Pointer("diagnostic_report", 0)) >>
    /\ obs_index' = obs_index + 1
    /\ UNCHANGED <<pc, serve_vars, build_vars, data, output, report, hl7_list, result, raised, module,
                   patient_resource, study_resource, validate_vars>>

EndFor ==
    /\ pc = "for_obs"
    /\ obs_index > Len(observations)
    /\ pc' = IF module = GenrateModule THEN "return" ELSE "create_diagnostic_report"
    /\ UNCHANGED <<serve_vars, build_vars, data, output, report, hl7_list, result,
                   raised, fhir_vars, validate_vars>>

\* dicom_to_fhir.py: the report and the entries, built after the loop
BuildReportAndEntries ==
    /\ pc = "create_diagnostic_report"
    /\ diagnostic_report' = ReportFor(patient_resource.id, observations, data,
                                      generate_uuid(uuids + 1))
    /\ uuids' = uuids + 1
    /\ entries' = << Entry(patient_resource.id, Pointer("patient", 0)) >>
                  \o ObservationEntries(observations)
                  \o << Entry(diagnostic_report'.id, Pointer("diagnostic_report", 0)) >>
    /\ pc' = "return"
    /\ UNCHANGED <<serve_vars, build_vars, data, output, report, hl7_list, result, raised, module,
                   patient_resource, study_resource, observations, obs_index,
                   validate_vars>>

ReturnBundle ==
    /\ pc = "return"
    /\ IF entries = <<>>
       THEN /\ raised' = <<"UnboundLocalError", "return">>
            /\ pc' = "raised"
            /\ UNCHANGED result
       ELSE /\ result' = [ resourceType |-> "Bundle",
                           type  |-> <<"collection">>,
                           entry |-> [k \in 1..Len(entries) |->
                                        [fullUrl  |-> entries[k].fullUrl,
                                         resource |-> Deref(entries[k].resource)]] ]
            /\ pc' = "done"
            /\ UNCHANGED raised
    /\ UNCHANGED <<serve_vars, build_vars, data, output, report, hl7_list, fhir_vars,
                   validate_vars>>

StudyDates == {ABSENT, <<"2", "0", "2", "5", "0", "5", "1", "2">>}

StudyTimes == {ABSENT, <<"1", "0", "1", "5", "0", "0">>}

FhirItemKinds ==
    { ContainerItem(<<"Image Library">>), ImageItem, TextItem(<<"Finding">>, <<"mass">>) }

FhirSampleTree ==
    << ContainerItem(<<"Image Library">>),
       [ImageItem EXCEPT !.parent = 1],
       [TextItem(<<"Finding">>, <<"mass">>) EXCEPT !.parent = 1] >>

FhirFullDataset ==
    [FullDataset EXCEPT !.PatientBirthDate = <<"1", "9", "8", "5", "0", "3", "1", "5">>,
                        !.StudyDate = <<"2", "0", "2", "5", "0", "5", "1", "2">>,
                        !.StudyTime = <<"1", "0", "1", "5", "0", "0">>]

\* item.ObservationDateTime: well-formed (14 digits), too short, empty, absent
ObservationDateTimes ==
    { ABSENT, <<>>, <<"2", "0", "2", "5", "0", "5", "1", "2">>,
      <<"2", "0", "2", "5", "0", "5", "1", "3", "0", "9", "3", "0", "0", "0">> }

\* ds.StudyTime shorter than HHMMSS
ShortStudyTime == <<"1", "0", "1", "5">>

\* a document whose one finding carries its own observation timestamp
TimedDatasets ==
    { [WithContent(FhirFullDataset,
                   << [TextItem(<<"Finding">>, <<"mass">>) EXCEPT !.ObservationDateTime = o] >>)
         EXCEPT !.StudyTime = t] :
        o \in ObservationDateTimes, t \in StudyTimes \cup {ShortStudyTime} }

FhirDatasets ==
    { [FhirFullDataset EXCEPT !.StudyDate = d, !.StudyTime = t,
                              !.hasContentSequence = h,
                              !.Content = IF h THEN c ELSE <<>>] :
        d \in StudyDates, t \in StudyTimes, h \in BOOLEAN, c \in {<<>>, FhirSampleTree} }
    \cup { WithContent(FhirFullDataset, t) : t \in Trees(FhirItemKinds, MaxNodes) }
    \cup TimedDatasets

InitFHIR ==
    /\ module \in {PyModule, GenrateModule}
    /\ pc = (IF module = GenrateModule THEN "extract_sr_report"
             ELSE "extract_patient_info")
    /\ data \in FhirDatasets
    /\ output = <<>>
    /\ report = <<>>
    /\ hl7_list = <<>>
    /\ result = NONE
    /\ raised = NONE
    /\ patient_resource = NONE
    /\ study_resource = NONE
    /\ observations = <<>>
    /\ obs_index = 0
    /\ diagnostic_report = NONE
    /\ entries = <<>>
    /\ uuids = 0
    /\ BuildIdle
    /\ ServeIdle
    /\ ValidateIdle

NextFHIR ==
    \/ ReadReport
    \/ ExtractPatient
    \/ ExtractStudy
    \/ ExtractObservations
    \/ FixNextSubject
    \/ FixNextSubjectAndBuild
    \/ EndFor
    \/ BuildReportAndEntries
    \/ ReturnBundle

SpecFHIR == InitFHIR /\ [][NextFHIR]_vars

\* ------------------------------------------------------------ claim C9
Resolves(bundle, ref) ==
    /\ ref[1] = "urn:uuid:"
    /\ \E k \in 1..Len(bundle.entry) :
          /\ bundle.entry[k].fullUrl = ref
          /\ ref = Urn(bundle.entry[k].resource.id)

\* C9: in every returned Bundle each reference (the subject of every
\* Observation, ImagingStudy and DiagnosticReport, and each result of the
\* DiagnosticReport) reads urn:uuid:<id> and is the fullUrl of an entry of
\* the same Bundle, the entry of the resource with that id.
C9_ReferencesResolve ==
    (module # NONE /\ pc = "done") =>
        \A k \in 1..Len(result.entry) :
            LET r == result.entry[k].resource
            IN  /\ r.resourceType # "Patient" =>
                      Resolves(result, r.subject.reference)
                /\ r.resourceType = "DiagnosticReport" =>
                      \A j \in 1..Len(r.result) : Resolves(result, r.result[j].reference)

C9_Witness ==
    /\ module = GenrateModule
    /\ pc = "done"
    /\ Len(observations) >= 2
    /\ Len(result.entry) = Len(observations) + 3

\* ------------------------------------------------------------ claim C10
\* C10: once the n findings of a document are extracted (n >= 0), the
\* conversion returns a Bundle whose entries are the Patient (then the
\* ImagingStudy), the n Observations, and last the one DiagnosticReport,
\* whose result holds n references, the i-th being urn:uuid: followed by
\* the id of the i-th Observation entry.
C10_ObservationEntries ==
    (module # NONE /\ (pc = "done" \/ (pc = "raised" /\ ~RaisedAt("extract_observations")))) =>
        /\ pc = "done"
        /\ LET n     == Len(observations)
               e     == result.entry
               first == IF module = GenrateModule THEN 2 ELSE 1
           IN  /\ Len(e) = first + n + 1
               /\ e[1].resource.resourceType = "Patient"
               /\ module = GenrateModule => e[2].resource.resourceType = "ImagingStudy"
               /\ \A k \in 1..n : e[first + k].resource.resourceType = "Observation"
               /\ e[Len(e)].resource.resourceType = "DiagnosticReport"
               /\ Len(e[Len(e)].resource.result) = n
               /\ \A k \in 1..n :
                     e[Len(e)].resource.result[k].reference = Urn(e[first + k].resource.id)

\* ------------------------------------------------------------ claim C11
\* C11: dicom_to_fhir never raises on a decoded document: whether the
\* document has no content sequence, a content tree that yields no finding,
\* or no study date or time, the conversion ends by returning a Bundle.
C11_NeverRaises ==
    module # NONE => (pc # "raised" /\ raised = NONE)

\* ====================================================== dicom_to_json.py
\* canonical gender words, spelt out: the PID builder reads their first letter
Male == <<"m", "a", "l", "e">>

Female == <<"f", "e", "m", "a", "l", "e">>

Other == <<"o", "t", "h", "e", "r">>

Unknown == <<"u", "n", "k", "n", "o", "w", "n">>

\* a finding that is a plain string (a dict finding has the keys type, value)
StrFinding(text) == [str |-> text]

IsStr(finding) == "str" \in DOMAIN finding

\* birth date of extract_custom_patient_info
CustomBirthDate(ds) ==
    LET birth_date == Get(ds.PatientBirthDate, <<"0", "0", "0", "0", "0", "1", "0", "1">>)
    IN  IF Contains(birth_date, "-") THEN birth_date
        ELSE Slice(birth_date, 0, 4) \o <<"-">> \o Slice(birth_date, 4, 6) \o <<"-">>
                \o Slice(birth_date, 6, 8)

\* gender of extract_custom_patient_info
CustomGender(ds) ==
    LET gender == Lower(Get(ds.PatientSex, Unknown))
    IN  IF gender = <<"m">> THEN Male
        ELSE IF gender = <<"f">> THEN Female
        ELSE Other

extract_custom_patient_info(ds) ==
    [ id         |-> Get(ds.PatientID, <<>>),
      name       |-> << [ given  |-> IF ds.PatientName.given_name = <<>> THEN <<>>
                                     ELSE <<ds.PatientName.given_name>>,
                          family |-> ds.PatientName.family_name ] >>,
      gender     |-> CustomGender(ds),
      birth_date |-> CustomBirthDate(ds) ]

\* study date of dicom_to_json.extract_study_info
CustomStudyDate(ds) ==
    LET study_date == Get(ds.StudyDate, <<>>)
    IN  IF Len(study_date) = 8
        THEN Slice(study_date, 0, 4) \o <<"-">> \o Slice(study_date, 4, 6) \o <<"-">>
                \o Slice(study_date, 6, 8)
        ELSE study_date

extract_custom_study_info(ds) ==
    LET pcs == ds.ProcedureCodeSequence
    IN  [ date             |-> CustomStudyDate(ds),
          accession_number |-> Get(ds.AccessionNumber, <<"UNKNOWN">>),
          modality         |-> Get(ds.Modality, <<"MG">>),
          procedure_code   |->
              IF pcs # <<>>
              THEN [ code    |-> Get(pcs[1].CodeValue, <<"24606-6">>),
                     system  |-> Get(pcs[1].CodingSchemeDesignator, <<"http://loinc.org">>),
                     display |-> Get(pcs[1].CodeMeaning, <<"Mammogram Diagnostic Report">>) ]
              ELSE [ code    |-> <<"24606-6">>,
                     system  |-> <<"http://loinc.org">>,
                     display |-> <<"Mammogram Diagnostic Report">> ] ]

extract_provider_info(ds) ==
    LET provider_name == Get(ds.ReferringPhysicianName, <<"Unknown">>)
        full_name     == Strip(Replace(provider_name, "^", <<" ">>))
    IN  [ name       |-> IF full_name # <<>> THEN full_name ELSE <<"Unknown">>,
          id         |-> <<"PROV001">>,
          department |-> <<"Radiology">> ]

\* extract_findings.process_sequence: the TextValue of every item that has
\* one, in document order
RECURSIVE process_sequence(_, _, _)
process_sequence(ds, seq, findings) ==
    IF seq = <<>> THEN findings
    ELSE LET item == ds.Content[Head(seq)]
             f1   == IF Has(item.TextValue)
                     THEN Append(findings, StrFinding(item.TextValue)) ELSE findings
             f2   == process_sequence(ds, ContentSequence(ds.Content, Head(seq)), f1)
         IN  process_sequence(ds, Tail(seq), f2)

extract_findings(ds) ==
    IF ds.hasContentSequence
    THEN process_sequence(ds, ContentSequence(ds.Content, 0), <<>>)
    ELSE <<>>

generate_custom_json(ds) ==
    [ kind         |-> "dict",
      message_type |-> <<"fhir">>,
      patient      |-> extract_custom_patient_info(ds),
      study        |-> extract_custom_study_info(ds),
      provider     |-> extract_provider_info(ds),
      findings     |-> extract_findings(ds) ]

\* ------------------------------------ specification: the builders, called
\* one at a time on a dict record: one given as such, or the one
\* generate_custom_json extracts from a dataset
Call(p, r) ==
    /\ pc' = p
    /\ IF r.ok THEN result' = r.val /\ UNCHANGED raised
       ELSE raised' = <<r.exc, p>> /\ UNCHANGED result
    /\ UNCHANGED <<serve_vars, build_vars, data, output, report, hl7_list, fhir_vars,
                   validate_vars>>

AcceptRecord ==
    /\ pc = "input"
    /\ IsDict(data)
    /\ parsed' = data
    /\ pc' = "build"
    /\ UNCHANGED <<data, output, report, hl7_list, result, raised, fhir_vars, serve_vars,
                   validate_vars>>

GenerateCustomJson ==
    /\ pc = "input"
    /\ IsFileDataset(data)
    /\ parsed' = generate_custom_json(data)
    /\ pc' = "build"
    /\ UNCHANGED <<data, output, report, hl7_list, result, raised, fhir_vars, serve_vars,
                   validate_vars>>

CallPid ==
    /\ pc = "build"
    /\ Call("create_hl7_pid_segment", create_hl7_pid_segment(parsed))

CallObr ==
    /\ pc = "build"
    /\ Call("create_obr_segment", create_obr_segment(parsed, 1))

CallZds ==
    /\ pc = "build"
    /\ Call("create_zds_segment", create_zds_segment(parsed))

CallObxReport ==
    /\ pc = "build"
    /\ Call("create_obx_report_segments", create_obx_report_segments(parsed))

\* the same two builders called on the dataset itself
CallPidDicom ==
    /\ pc = "input"
    /\ IsFileDataset(data)
    /\ Call("create_hl7_pid_segment(ds)", create_hl7_pid_segment(data))

CallObrDicom ==
    /\ pc = "input"
    /\ IsFileDataset(data)
    /\ Call("create_obr_segment(ds)", create_obr_segment(data, 1))

\* ----------------------------- parse_mammo_sr (the Swagger modules' parser)
\* gender_map.get(getattr(ds, 'PatientSex', 'U'), 'unknown')
ParseMammoGender(ds) ==
    LET dicom_gender == Get(ds.PatientSex, <<"U">>)
    IN  IF dicom_gender = <<"M">> THEN Male
        ELSE IF dicom_gender = <<"F">> THEN Female
        ELSE IF dicom_gender = <<"O">> THEN Other
        ELSE Unknown

\* the findings of parse_mammo_sr: the non-empty TextValue of the top-level
\* items (an item carries no CodeMeaning of its own)
ParseMammoFindings(ds) ==
    LET top == IF ds.hasContentSequence THEN ContentSequence(ds.Content, 0) ELSE <<>>
        HasText(i) == Get(ds.Content[i].TextValue, <<>>) # <<>>
        kept == SelectSeq(top, HasText)
    IN  [k \in 1..Len(kept) |-> StrFinding(ds.Content[kept[k]].TextValue)]

parse_mammo_sr(ds) ==
    IF ~Has(ds.PatientID) \/ ~Has(ds.StudyDate) THEN Raise("AttributeError")
    ELSE Ok([ kind     |-> "dict",
              patient  |-> [ id         |-> ds.PatientID,
                             name       |-> << [given |-> << <<"Jane">> >>,
                                                family |-> <<"Doe">>] >>,
                             gender     |-> ParseMammoGender(ds),
                             birth_date |-> Get(ds.PatientBirthDate,
                                 <<"0", "0", "0", "0", "-", "0", "1", "-", "0", "1">>) ],
              study    |-> [ date             |-> ds.StudyDate,
                             accession_number |-> Get(ds.AccessionNumber,
                                                      <<"ACC-">> \o generate_uuid(1)),
                             modality         |-> Get(ds.Modality, <<"MG">>),
                             procedure_code   |->
                                 [ code    |-> <<"24606-6">>,
                                   system  |-> <<"http://loinc.org">>,
                                   display |-> <<"Mammogram Diagnostic Report">> ] ],
              provider |-> [ id         |-> <<"PROV001">>,
                             name       |-> <<"Dr. Emily Carter">>,
                             department |-> <<"Radiology">> ],
              findings |-> ParseMammoFindings(ds) ])

ParseMammoSr ==
    /\ pc = "input"
    /\ IsFileDataset(data)
    /\ LET r == parse_mammo_sr(data)
       IN  IF r.ok THEN parsed' = r.val /\ UNCHANGED raised
           ELSE raised' = <<r.exc, "parse_mammo_sr">> /\ UNCHANGED parsed
    /\ pc' = "parse_mammo_sr"
    /\ UNCHANGED <<data, output, report, hl7_list, result, fhir_vars, serve_vars,
                   validate_vars>>

SexCodes == {ABSENT, <<>>, <<"M">>, <<"F">>, <<"O">>, <<"U">>, <<"m">>}

Genders == {ABSENT, <<>>, Male, Female, Other, Unknown, <<"F">>, <<"m", "i", "x", "e", "d">>}

DicomDates ==
    { ABSENT, <<>>, <<"2", "0", "2", "5", "0", "5", "1", "2">>,
      <<"2", "0", "2", "5", "-", "0", "5", "-", "1", "2">>, <<"2", "0", "2", "5">>,
      <<"1", "2", "M", "A", "Y", "2", "5", "x">> }

RecordDates == {ABSENT, <<>>, <<"2", "0", "2", "5", "-", "0", "5", "-", "1", "2">>}

BuildDatasets ==
    { [FhirFullDataset EXCEPT !.PatientSex = sex, !.PatientBirthDate = dob,
                              !.StudyDate = d, !.StudyTime = t] :
        sex \in SexCodes, dob \in DicomDates, d \in DicomDates, t \in StudyTimes }
    \cup { [WithContent(FhirFullDataset, c) EXCEPT !.AccessionNumber = acc,
                                                   !.StudyInstanceUID = uid] :
             acc \in Accessions, uid \in StudyUids, c \in Trees(FhirItemKinds, MaxFindings) }

BuildRecords ==
    HL7Records
    \cup { [FullRecord EXCEPT !.patient.gender = g, !.patient.birth_date = dob,
                              !.study.date = d] :
             g \in Genders, dob \in RecordDates, d \in RecordDates }

InitBuild ==
    /\ pc = "input"
    /\ data \in BuildDatasets \cup BuildRecords
    /\ output = <<>>
    /\ report = <<>>
    /\ hl7_list = <<>>
    /\ result = NONE
    /\ raised = NONE
    /\ FhirIdle
    /\ parsed = NONE
    /\ ServeIdle
    /\ ValidateIdle

NextBuild ==
    \/ AcceptRecord
    \/ GenerateCustomJson
    \/ CallPid
    \/ CallObr
    \/ CallZds
    \/ CallObxReport
    \/ CallPidDicom
    \/ CallObrDicom
    \/ ParseMammoSr

SpecBuild == InitBuild /\ [][NextBuild]_vars

\* ------------------------------------------------------------ claim C12
IsWrapperTag(t) == t \in {"<html>", "</html>", "<body>", "</body>"}

NotWrapperTag(t) == ~IsWrapperTag(t)

\* C12: for every finding of a dict record, OBX-5 of its report segment is
\* the finding's value without the <html> and <body> wrapper tags, the inner
\* content kept: "<html><body><p>X</p></body></html>" is emitted as
\* "<p>X</p>".
C12_HtmlWrapperRemoved ==
    (pc = "create_obx_report_segments" /\ raised = NONE) =>
        LET findings == parsed.findings
            segs     == Split(result, "\n")
        IN  \A idx \in 1..Len(findings) :
                /\ ~\E k \in 1..Len(Fields(segs[idx])[6]) :
                        IsWrapperTag(Fields(segs[idx])[6][k])
                /\ Fields(segs[idx])[6] =
                      SelectSeq(Join(Words(findings[idx].value), <<" ">>), NotWrapperTag)

\* ------------------------------------------------------------ claim C13
\* C13: for a dict record with its four sections, an accession number and
\* a study instance UID, create_hl7_message ends by returning a message:
\* MSH, PID, OBR, ZDS and one report OBX per finding.
C13_RecordAccepted ==
    (/\ IsDict(data)
     /\ AccessionOf(data) # <<>>
     /\ Strip(StudyUidOf(data)) # <<>>
     /\ pc \in {"done", "raised"}) =>
        /\ pc = "done"
        /\ LET segs == Segments(result)
           IN  /\ Len(segs) = 4 + Len(data.findings)
               /\ segs[1][1] = "MSH" /\ segs[2][1] = "PID"
               /\ segs[3][1] = "OBR" /\ segs[4][1] = "ZDS"
               /\ \A k \in 5..Len(segs) : IsReportOBX(segs[k])

\* ------------------------------------------------------------ claim C14
\* C14: for every dataset that has an accession number and a study instance
\* UID, each of the four dict-path stages succeeds on the record that
\* generate_custom_json extracts from it, and the report block has one OBX
\* per extracted finding.
C14_ExtractedRecordBuilds ==
    (/\ IsFileDataset(data)
     /\ Get(data.AccessionNumber, <<>>) # <<>>
     /\ Strip(Get(data.StudyInstanceUID, <<>>)) # <<>>
     /\ pc \in {"create_hl7_pid_segment", "create_obr_segment",
                "create_zds_segment", "create_obx_report_segments"}) =>
        /\ raised = NONE
        /\ pc = "create_obx_report_segments" =>
              Len(Segments(result)) = Len(parsed.findings)

\* ------------------------------------------------------------ claim C15
\* the canonical gender the claim gives a source sex code
ClaimedGender(ds) ==
    IF ds.PatientSex = <<"M">> THEN Male
    ELSE IF ds.PatientSex = <<"F">> THEN Female
    ELSE Other

\* C15: the gender an extractor puts into the record is male for M, female
\* for F and other for every other sex code (O, U, empty, absent); never
\* another word such as unknown.  Read for generate_custom_json and for
\* parse_mammo_sr.
C15_GenderMap ==
    /\ (pc = "build" /\ IsFileDataset(data)) =>
          parsed.patient.gender = ClaimedGender(data)
    /\ (pc = "parse_mammo_sr" /\ raised = NONE) =>
          parsed.patient.gender = ClaimedGender(data)

\* ------------------------------------------------------------ claim C16
\* PID-8 of a PID segment
Pid8(seg) == Fields(seg)[9]

\* the PID segment built from the record is at hand, and its fields can be
\* told apart (the patient id holds no field separator)
PidBuilt ==
    /\ pc = "create_hl7_pid_segment"
    /\ raised = NONE
    /\ ~Contains(Key(Section(parsed, "patient"), "id", <<>>), "|")

RecordGender == Key(Section(parsed, "patient"), "gender", <<>>)

\* the sex code the claim gives a canonical gender
ClaimedSexCode(gender) ==
    IF gender = Female THEN <<"F">>
    ELSE IF gender = Male THEN <<"M">>
    ELSE IF gender = Other THEN <<"O">>
    ELSE <<>>

\* C16: PID-8 built from a record is F for gender female, M for male, O for
\* other and empty for unknown or any other value; and a source sex code M
\* or F comes back as the same code in PID-8 of the extracted record.
C16_Pid8FromGender ==
    PidBuilt =>
        /\ Pid8(result) = ClaimedSexCode(RecordGender)
        /\ (IsFileDataset(data) /\ data.PatientSex \in {<<"M">>, <<"F">>}) =>
               Pid8(result) = data.PatientSex

\* ------------------------------------------------------------ claim C17
IsYyyyMmDd(d) == Len(d) = 8 /\ IsDigit(d)

IsHyphenated(d) ==
    /\ Len(d) = 10
    /\ d[5] = "-" /\ d[8] = "-"
    /\ \A i \in {1, 2, 3, 4, 6, 7, 9, 10} : d[i] \in Digits

\* the normal form the claim gives a source date
ClaimedDate(d) ==
    IF ~Has(d) THEN <<>>
    ELSE IF IsYyyyMmDd(d)
         THEN SubSeq(d, 1, 4) \o <<"-">> \o SubSeq(d, 5, 6) \o <<"-">> \o SubSeq(d, 7, 8)
    ELSE IF IsHyphenated(d) THEN d
    ELSE <<>>

\* the record generate_custom_json extracted from the dataset is at hand
Extracted == pc = "build" /\ IsFileDataset(data)

\* C17: the dates of the extracted record are normalised: eight digits
\* become YYYY-MM-DD, a hyphenated date stays as it is, an absent or
\* malformed one becomes the empty string.
C17_DatesNormalised ==
    Extracted =>
        /\ parsed.patient.birth_date = ClaimedDate(data.PatientBirthDate)
        /\ parsed.study.date = ClaimedDate(data.StudyDate)

\* ------------------------------------------------------------ claim C18
\* the observation date-time field of an OBR segment (obr_fields[8])
ObrDateTime(seg) == Fields(seg)[9]

\* the OBR segment built from the dataset itself is at hand
ObrBuiltFromDicom == pc = "create_obr_segment(ds)" /\ raised = NONE

\* the OBR segment built from the record is at hand
ObrBuiltFromDict == pc = "create_obr_segment" /\ raised = NONE

\* C18: the observation date-time of the OBR segment is the study date
\* without hyphens followed by the study time of the source, and by 000000
\* only when the source has no study time; on the DICOM path and on the
\* dict path.
C18_ObrDateTime ==
    /\ (ObrBuiltFromDicom /\ Get(data.StudyDate, <<>>) # <<>>) =>
          ObrDateTime(result) =
              data.StudyDate \o Get(data.StudyTime, <<"000000">>)
    /\ (ObrBuiltFromDict /\ Key(Section(parsed, "study"), "date", <<>>) # <<>>) =>
          ObrDateTime(result) =
              Replace(Key(Section(parsed, "study"), "date", <<>>), "-", <<>>)
                  \o <<"000000">>

\* ------------------------------------------------------------ claim C19
HandledValueTypes ==
    { <<"CONTAINER">>, <<"TEXT">>, <<"CODE">>, <<"NUM">>, <<"DATE">>, <<"TIME">>,
      <<"IMAGE">> }

\* the value type as parse_item reads it: empty when the attribute is absent
ValueTypeOf(item) == IF Has(item.ValueType) THEN item.ValueType ELSE <<>>

IsUnhandled(item) == ValueTypeOf(item) \notin HandledValueTypes

\* "<name> = [Unknown or unhandled value type: <type>]" at the node's depth
PlaceholderLine(nodes, i) ==
    Repeat(<<" ", " ">>, Depth(nodes, i)) \o ItemName(nodes[i])
        \o <<" ", "=", " ", "[Unknown or unhandled value type: ">>
        \o ValueTypeOf(nodes[i]) \o <<"]">>

LinesEqualTo(line) == { p \in 1..Len(output) : output[p] = line }

DicomsrWriter == "DICOMSR_HL7_FHIR_Writer_Swagger"

Hl7FhirWriter == "HL7_FHIRWriter_Swagger"

Requests == {1, 2}

\* a request whose upload has no StudyDate, which parse_mammo_sr reads unguarded
UndatedRequest == 3

\* the document request t uploads: two different studies
Upload(t) ==
    [FhirFullDataset EXCEPT !.PatientID = <<"P", ToString(t)>>,
                            !.AccessionNumber = <<"ACC", ToString(t)>>,
                            !.StudyDate = IF t = UndatedRequest THEN ABSENT ELSE @]

FileNames == {"a.dcm", "b.dcm"}

MessageTypes == {"hl7", "fhir", "json", "xml"}

\* a converter applied to what it read; its text holds the patient id and the
\* accession number of the document, so two uploads never convert alike
Converted(converter, doc) == [converter |-> converter, of |-> doc]

Response200(body) == [status |-> 200, body |-> body]

Response400 == [status |-> 400, error |-> "Invalid message_type"]

Response500(exc) == [status |-> 500, error |-> exc]

NoResponse == [status |-> 0]

\* the file of request t: whose upload is staged under its name (0: no file)
StagedFor(t) == tmp[req[t].filename]

At(t, label) == req[t].pc = label

Finish(t, response) ==
    req' = [req EXCEPT ![t].pc = "done", ![t].response = response]

\* file.save(dicom_path) / file.save(temp_path)
SaveUpload(t) ==
    /\ At(t, "save")
    /\ tmp' = [tmp EXCEPT ![req[t].filename] = t]
    /\ req' = [req EXCEPT ![t].pc = "parse"]
    /\ UNCHANGED <<app, pc, data, output, report, hl7_list, result, raised,
                   fhir_vars, build_vars, validate_vars>>

\* parsed = parse_mammo_sr(path): reads the file that is at the path now
ParseUpload(t) ==
    /\ At(t, "parse")
    /\ IF StagedFor(t) = 0 THEN Finish(t, Response500("FileNotFoundError"))
       ELSE LET r == parse_mammo_sr(Upload(StagedFor(t)))
            IN  IF ~r.ok THEN Finish(t, Response500(r.exc))
                ELSE req' = [req EXCEPT
                        ![t].pc = IF app = Hl7FhirWriter THEN "remove" ELSE "convert",
                        ![t].parsed = StagedFor(t),
                        ![t].read = @ \cup {StagedFor(t)}]
    /\ UNCHANGED <<app, tmp, pc, data, output, report, hl7_list, result, raised,
                   fhir_vars, build_vars, validate_vars>>

\* HL7_FHIRWriter_Swagger: os.remove(temp_path) right after parsing
RemoveParsed(t) ==
    /\ At(t, "remove")
    /\ app = Hl7FhirWriter
    /\ IF StagedFor(t) = 0
       THEN Finish(t, Response500("FileNotFoundError")) /\ UNCHANGED tmp
       ELSE /\ tmp' = [tmp EXCEPT ![req[t].filename] = 0]
            /\ req' = [req EXCEPT ![t].pc = "respond"]
    /\ UNCHANGED <<app, pc, data, output, report, hl7_list, result, raised,
                   fhir_vars, build_vars, validate_vars>>

\* HL7_FHIRWriter_Swagger: the response is built from the parsed record
RespondFromParsed(t) ==
    /\ At(t, "respond")
    /\ app = Hl7FhirWriter
    /\ LET record == parse_mammo_sr(Upload(req[t].parsed)).val
           kind   == req[t].message_type
       IN  Finish(t, IF kind = "hl7"
                     THEN Response200(Converted("build_hl7_message", record))
                     ELSE IF kind = "fhir"
                     THEN Response200(Converted("build_fhir_report", record))
                     ELSE IF kind = "json"
                     THEN Response200(Converted("parsed", record))
                     ELSE Response400)
    /\ UNCHANGED <<app, tmp, pc, data, output, report, hl7_list, result, raised,
                   fhir_vars, build_vars, validate_vars>>

\* the converter DICOMSR_HL7_FHIR_Writer_Swagger runs on dicom_path
ConverterOf(kind) ==
    IF kind = "hl7" THEN "generate_hl7_from_mammo_sr"
    ELSE IF kind = "fhir" THEN "dicom_to_fhir"
    ELSE "generate_custom_json"

\* DICOMSR_HL7_FHIR_Writer_Swagger: the converter reads dicom_path again
ConvertFile(t) ==
    /\ At(t, "convert")
    /\ app = DicomsrWriter
    /\ LET kind == req[t].message_type
       IN  IF kind \notin {"hl7", "fhir", "json"} THEN Finish(t, Response400)
           ELSE IF StagedFor(t) = 0 THEN Finish(t, Response500("FileNotFoundError"))
           ELSE IF kind = "json"
           THEN req' = [req EXCEPT
                   ![t].pc = "done",
                   ![t].read = @ \cup {StagedFor(t)},
                   ![t].response =
                       Response200(Converted(ConverterOf(kind),
                                             generate_custom_json(Upload(StagedFor(t)))))]
           ELSE req' = [req EXCEPT
                   ![t].pc = "unlink",
                   ![t].read = @ \cup {StagedFor(t)},
                   ![t].converted = StagedFor(t)]
    /\ UNCHANGED <<app, tmp, pc, data, output, report, hl7_list, result, raised,
                   fhir_vars, build_vars, validate_vars>>

\* DICOMSR_HL7_FHIR_Writer_Swagger: os.remove(dicom_path), then the response
RemoveConverted(t) ==
    /\ At(t, "unlink")
    /\ app = DicomsrWriter
    /\ IF StagedFor(t) = 0
       THEN Finish(t, Response500("FileNotFoundError")) /\ UNCHANGED tmp
       ELSE /\ tmp' = [tmp EXCEPT ![req[t].filename] = 0]
            /\ Finish(t, Response200(Converted(ConverterOf(req[t].message_type),
                                               Upload(req[t].converted))))
    /\ UNCHANGED <<app, pc, data, output, report, hl7_list, result, raised,
                   fhir_vars, build_vars, validate_vars>>

InitServe ==
    /\ pc = "serve"
    /\ data = NONE
    /\ output = <<>>
    /\ report = <<>>
    /\ hl7_list = <<>>
    /\ result = NONE
    /\ raised = NONE
    /\ FhirIdle
    /\ BuildIdle
    /\ app \in {DicomsrWriter, Hl7FhirWriter}
    /\ tmp = [f \in FileNames |-> 0]
    /\ \E names \in [Requests -> FileNames], kinds \in [Requests -> MessageTypes] :
          req = [t \in Requests |->
                    [ filename |-> names[t], message_type |-> kinds[t], pc |-> "save",
                      parsed |-> 0, converted |-> 0, read |-> {},
                      response |-> NoResponse ]]
    /\ ValidateIdle

NextServe ==
    \E t \in Requests :
        \/ SaveUpload(t)
        \/ ParseUpload(t)
        \/ RemoveParsed(t)
        \/ RespondFromParsed(t)
        \/ ConvertFile(t)
        \/ RemoveConverted(t)

SpecServe == InitServe /\ [][NextServe]_vars

\* ------------------------------------------------------------ claim C20
\* the response request t gets when no other request is served
ResponseAlone(t) ==
    LET kind == req[t].message_type
    IN  IF app = Hl7FhirWriter
        THEN (IF kind = "hl7"
              THEN Response200(Converted("build_hl7_message", parse_mammo_sr(Upload(t)).val))
              ELSE IF kind = "fhir"
              THEN Response200(Converted("build_fhir_report", parse_mammo_sr(Upload(t)).val))
              ELSE IF kind = "json"
              THEN Response200(Converted("parsed", parse_mammo_sr(Upload(t)).val))
              ELSE Response400)
        ELSE (IF kind = "json"
              THEN Response200(Converted(ConverterOf(kind), generate_custom_json(Upload(t))))
              ELSE IF kind \in {"hl7", "fhir"}
              THEN Response200(Converted(ConverterOf(kind), Upload(t)))
              ELSE Response400)

\* C20: two requests served concurrently on different uploads do not
\* interfere, also when both uploads carry the same file name: a finished
\* request has the response it gets when served alone, and a request reads
\* no file that the other one staged.
C20_NoInterference ==
    pc = "serve" =>
        \A t \in Requests :
            /\ req[t].pc = "done" => req[t].response = ResponseAlone(t)
            /\ req[t].read \subseteq {t}

\* --------------------------------------- generate_message, one request alone
\* One POST /generate-message in each of its input forms: a JSON body, an
\* uploaded .json file, an uploaded .dcm file, an upload of another type, or
\* no input at all.
InputForms == {"body", "json_file", "dcm_file", "other_file", "none"}

RequiredSections == {"patient", "provider", "study", "findings"}

\* the record a client posts: the canonical record of a study
PostedRecord == parse_mammo_sr(Upload(1)).val

\* the posted record without some of its sections
Without(record, missing) == [k \in DOMAIN record \ missing |-> record[k]]

PostedRecords ==
    {PostedRecord}
    \cup { Without(PostedRecord, {k}) : k \in RequiredSections }
    \cup { [PostedRecord EXCEPT !.patient = Without(PostedRecord.patient, {"id"})] }

HasSections(record) == RequiredSections \subseteq DOMAIN record

\* build_hl7_message(parsed): the keys it subscripts must be there
build_hl7_message(record) ==
    IF /\ {"id", "name"} \subseteq DOMAIN record.patient
       /\ {"accession_number", "procedure_code", "date"} \subseteq DOMAIN record.study
       /\ "name" \in DOMAIN record.provider
    THEN Ok(Converted("build_hl7_message", record))
    ELSE Raise("KeyError")

\* build_fhir_report(parsed)
build_fhir_report(record) ==
    IF /\ "id" \in DOMAIN record.patient
       /\ {"procedure_code", "date"} \subseteq DOMAIN record.study
       /\ "name" \in DOMAIN record.provider
    THEN Ok(Converted("build_fhir_report", record))
    ELSE Raise("KeyError")

Response400For(message) == [status |-> 400, error |-> message]

\* generate_message up to the choice of the message type
ReadRequest(t) ==
    /\ At(t, "start")
    /\ LET form == req[t].form
       IN  IF form \in {"body", "json_file"}
           THEN IF HasSections(req[t].record)
                THEN req' = [req EXCEPT ![t].pc = "build"]
                ELSE Finish(t, Response500("KeyError"))
           ELSE IF form = "dcm_file" THEN req' = [req EXCEPT ![t].pc = "save"]
           ELSE IF form = "other_file"
           THEN Finish(t, Response400For("Unsupported file type"))
           ELSE Finish(t, Response400For("No input provided"))
    /\ UNCHANGED <<app, tmp, pc, data, output, report, hl7_list, result, raised,
                   fhir_vars, build_vars, validate_vars>>

ResponseOf(r) == IF r.ok THEN Response200(r.val) ELSE Response500(r.exc)

\* generate_message on a record: the branch of the message type
BuildFromRecord(t) ==
    /\ At(t, "build")
    /\ LET kind   == req[t].message_type
           record == req[t].record
       IN  Finish(t,
              IF kind = "hl7" THEN ResponseOf(build_hl7_message(record))
              ELSE IF kind = "fhir" THEN ResponseOf(build_fhir_report(record))
              ELSE IF kind = "json"
              THEN (IF app = DicomsrWriter /\ req[t].form = "body"
                    THEN Response500("UnboundLocalError")
                    ELSE Response200(Converted("parsed", record)))
              ELSE Response400)
    /\ UNCHANGED <<app, tmp, pc, data, output, report, hl7_list, result, raised,
                   fhir_vars, build_vars, validate_vars>>

InitRequest ==
    /\ pc = "request"
    /\ data = NONE
    /\ output = <<>>
    /\ report = <<>>
    /\ hl7_list = <<>>
    /\ result = NONE
    /\ raised = NONE
    /\ FhirIdle
    /\ BuildIdle
    /\ app \in {DicomsrWriter, Hl7FhirWriter}
    /\ tmp = [f \in FileNames |-> 0]
    /\ \E t \in {1, UndatedRequest}, form \in InputForms, kind \in MessageTypes,
          record \in PostedRecords :
          req = [x \in {t} |->
                    [ form |-> form, record |-> record, filename |-> "a.dcm",
                      message_type |-> kind, pc |-> "start",
                      parsed |-> 0, converted |-> 0, read |-> {},
                      response |-> NoResponse ]]
    /\ ValidateIdle

NextRequest ==
    \E t \in DOMAIN req :
        \/ ReadRequest(t)
        \/ BuildFromRecord(t)
        \/ SaveUpload(t)
        \/ ParseUpload(t)
        \/ RemoveParsed(t)
        \/ RespondFromParsed(t)
        \/ ConvertFile(t)
        \/ RemoveConverted(t)

SpecRequest == InitRequest /\ [][NextRequest]_vars

\* the request of SpecRequest
TheRequest == req[CHOOSE t \in DOMAIN req : TRUE]

Answered == pc = "request" /\ TheRequest.pc = "done"

\* ------------------------------------------------------------ claim C21
\* the request is malformed: no input, an unsupported file type, an invalid
\* message type, or a posted record without one of its four sections
Malformed(r) ==
    \/ r.form \in {"none", "other_file"}
    \/ r.message_type \notin {"hl7", "fhir", "json"}
    \/ r.form \in {"body", "json_file"} /\ ~HasSections(r.record)

\* C21: a malformed request (no input, unsupported file type, invalid
\* message_type, posted record without a required section) is answered
\* with status 400; status 500 is for internal failures only.
C21_MalformedIs400 ==
    (Answered /\ Malformed(TheRequest)) => TheRequest.response.status = 400

\* ------------------------------------------------------------ claim C22
\* C22: when the response is returned, the file the request staged in the
\* temporary directory has been removed, whatever the message type and also
\* when parsing or building failed.
C22_StagedFileRemoved ==
    Answered => tmp[TheRequest.filename] = 0

\* ------------------------------------------------------------ claim C23
\* the request is valid: an accepted input form with a complete input and a
\* message type of hl7, fhir or json
ValidRequest(r) ==
    /\ r.message_type \in {"hl7", "fhir", "json"}
    /\ \/ r.form \in {"body", "json_file"} /\ r.record = PostedRecord
       \/ r.form = "dcm_file" /\ DOMAIN req = {1}

\* C23: every accepted input form (JSON body, .json upload, .dcm upload)
\* with every message type of hl7, fhir, json is answered with a success
\* response; no valid combination ends in an error response.
C23_ValidCombinationSucceeds ==
    (Answered /\ app = DicomsrWriter /\ ValidRequest(TheRequest)) =>
        TheRequest.response.status = 200

\* ------------------------------------------------------------ claim C24
\* the lines create_obx_segments loops over, and the segments it returned
ReportLines == Split(report, "\n")

ObxSegments == Segments(result)

IsBlank(line) == Strip(line) = <<>>

IsTopLevel(line) == ~IsBlank(line) /\ LeadingSpaces(line) = 0

\* the top-level line in force at line k: the last one before it
HeadingAt(lines, k) ==
    LET tops == { j \in 1..(k - 1) : IsTopLevel(lines[j]) }
    IN  IF tops = {} THEN <<>>
        ELSE lines[CHOOSE j \in tops : \A h \in tops : h <= j]

\* the number of segments line k stands for
SegmentsOfLine(lines, k) ==
    IF IsBlank(lines[k])
    THEN (IF HeadingAt(lines, k) = <<"Image Library">> THEN 1 ELSE 0)
    ELSE IF IsTopLevel(lines[k]) /\ Contains(lines[k], "=") THEN 2
    ELSE 1

RECURSIVE SegmentsBefore(_, _)
SegmentsBefore(lines, k) ==
    IF k <= 1 THEN 0
    ELSE SegmentsBefore(lines, k - 1) + SegmentsOfLine(lines, k - 1)

ObxBuilt == pc \in {"obx", "observations"}

\* C24 as stated: the report block holds exactly one OBX segment per node
\* the walker visited, and the k-th segment carries the k-th rendered line.
C24_OneObxPerLine ==
    (ObxBuilt /\ data.hasContentSequence) =>
        /\ Len(ObxSegments) = Len(data.Content)
        /\ \A k \in 1..Len(ObxSegments) :
              k <= Len(output) /\ Fields(ObxSegments[k])[6] = output[k]

\* C24 as amended: the segments follow the lines in order with consecutive
\* set ids from 1; a non-blank line gives one segment holding the line, but
\* a top-level line with '=' gives two (TITLETAG with the text before the
\* first '=', RESULTSTAG with the text after it); a blank line gives one
\* "DXm image" segment under the heading Image Library and none otherwise.
C24_ObxPerLineAmended ==
    ObxBuilt =>
        LET lines == ReportLines
            segs  == ObxSegments
            n     == Len(lines)
        IN  /\ Len(segs) = SegmentsBefore(lines, n + 1)
            /\ \A k \in 1..n :
                 LET o    == SegmentsBefore(lines, k)
                     line == lines[k]
                 IN  IF IsBlank(line)
                     THEN SegmentsOfLine(lines, k) = 1 =>
                            segs[o + 1] =
                              ObxReportSegment(o + 1, "IMAGELIBRARY", <<"DXm image">>)
                     ELSE IF IsTopLevel(line) /\ Contains(line, "=")
                     THEN /\ segs[o + 1] =
                               ObxReportSegment(o + 1, "TITLETAG",
                                                Strip(BeforeFirst(line, "=")))
                          /\ segs[o + 2] =
                               ObxReportSegment(o + 2, "RESULTSTAG",
                                                Strip(AfterFirst(line, "=")))
                     ELSE IF IsTopLevel(line)
                     THEN segs[o + 1] = ObxReportSegment(o + 1, "TITLETAG", line)
                     ELSE segs[o + 1] = ObxReportSegment(o + 1, "RESULTSTAG", line)

\* a report with an image line under Image Library and a top-level
\* "name = value" line has been turned into four segments
C24_Witness ==
    /\ ObxBuilt
    /\ Len(ReportLines) = 3
    /\ ReportLines[1] = <<"Image Library">>
    /\ IsBlank(ReportLines[2])
    /\ IsTopLevel(ReportLines[3]) /\ Contains(ReportLines[3], "=")
    /\ Len(ObxSegments) = 4

\* ------------------------------------------------------------ claim C25
\* the blank lines that stand after the top-level heading "Image Library"
\* and before the next top-level heading
ImageLibraryBlanks(lines) ==
    { k \in 1..Len(lines) :
        IsBlank(lines[k]) /\ HeadingAt(lines, k) = <<"Image Library">> }

\* the "DXm image" findings of the HL7 consumer and of the FHIR consumer
DxmSegments ==
    { k \in 1..Len(ObxSegments) : Fields(ObxSegments[k])[6] = <<"DXm image">> }

DxmObservations ==
    { k \in 1..Len(observations) : observations[k].valueString = <<"DXm image">> }

\* C25: in create_obx_segments and in extract_observations alike, each blank
\* line after the top-level heading "Image Library" and before the next
\* top-level heading gives exactly one "DXm image" finding and a blank line
\* under any other heading gives none; both give the same number of them.
C25_DxmImagePerBlankLine ==
    pc = "observations" =>
        /\ Cardinality(DxmSegments) = Cardinality(ImageLibraryBlanks(ReportLines))
        /\ Cardinality(DxmObservations) = Cardinality(ImageLibraryBlanks(ReportLines))

\* ------------------------------------------------------------ claim C26
\* the items of a content tree in the order a depth-first walk meets them
RECURSIVE Preorder(_, _)
Preorder(nodes, p) ==
    LET RECURSIVE Over(_)
        Over(cs) == IF cs = <<>> THEN <<>>
                    ELSE <<Head(cs)>> \o Preorder(nodes, Head(cs)) \o Over(Tail(cs))
    IN  Over(ContentSequence(nodes, p))

\* the referenced SOP instance UIDs of a dataset, in the order met
ReferencedUids(ds) ==
    LET order == Preorder(ds.Content, 0)
        RECURSIVE Of(_)
        Of(k) == IF k > Len(order) THEN <<>>
                 ELSE [r \in 1..Len(ds.Content[order[k]].ReferencedSOPSequence) |->
                          ds.Content[order[k]].ReferencedSOPSequence[r].ReferencedSOPInstanceUID]
                      \o Of(k + 1)
    IN  IF ds.hasContentSequence THEN Of(1) ELSE <<>>

\* the first occurrence of every UID, in order
FirstEncounters(uids) ==
    LET first == { k \in 1..Len(uids) : \A j \in 1..(k - 1) : uids[j] # uids[k] }
        RECURSIVE Pick(_)
        Pick(k) == IF k > Len(uids) THEN <<>>
                   ELSE (IF k \in first THEN <<uids[k]>> ELSE <<>>) \o Pick(k + 1)
    IN  Pick(1)

UidBlockBuilt == pc \in {"obx", "join", "done"} /\ IsFileDataset(data) /\ Len(hl7_list) >= 5

UidSegments == Segments(hl7_list[5])

GroupIdentifiers ==
    << "STUDYINSTANCEUID", "SERIESINSTANCEUID", "SOPINSTANCEUID", "SOPCLASSUID" >>

\* C26: the UID block of one call opens with the SR instance UID row with
\* sub-ID 1; every distinct referenced SOP instance UID of the content tree,
\* at any depth, gives exactly one group of four rows (study, series, SOP
\* instance, SOP class) in first-encounter order with sub-IDs 2, 3, ...; a
\* repeated reference adds nothing, and nothing is remembered between calls.
C26_UidGroupsPerDistinctReference ==
    UidBlockBuilt =>
        LET segs == UidSegments
            uids == FirstEncounters(ReferencedUids(data))
        IN  /\ Len(segs) = 1 + 4 * Len(uids)
            /\ Fields(segs[1])[4][1] = "SRINSTANCEUID"
            /\ Fields(segs[1])[5] = <<"1">>
            /\ Fields(segs[1])[6] = data.SOPInstanceUID
            /\ \A k \in 1..Len(uids) : \A g \in 1..4 :
                  LET seg == segs[1 + 4 * (k - 1) + g]
                  IN  /\ Fields(seg)[4][1] = GroupIdentifiers[g]
                      /\ Fields(seg)[5] = IntStr(k + 1)
                      /\ g = 3 => Fields(seg)[6] = uids[k]

\* a tree that refers to the same image twice, once below a container, and to
\* another image as well
C26_Witness ==
    /\ UidBlockBuilt
    /\ LET all == ReferencedUids(data)
       IN  /\ Len(all) = 3
           /\ Len(FirstEncounters(all)) = 2
           /\ \E i \in 1..Len(data.Content) :
                 /\ data.Content[i].parent # 0
                 /\ data.Content[i].ReferencedSOPSequence # <<>>

\* ------------------------------------------------------------ claim C27
\* where an OBR segment carries the accession number and the modality
ObrLayout(seg, accession_number, modality) ==
    LET f == Fields(seg)
    IN  [ accession |-> { k \in 1..Len(f) : f[k] = accession_number },
          modality  |-> { k \in 1..Len(f) : f[k] = modality },
          final     |-> Len(f) ]

ObrLayoutOfDict == ObrLayout(create_obr_segment(FullRecord, 1).val, <<"ACC1">>, <<"MG">>)

ObrLayoutOfDicom == ObrLayout(create_obr_segment(FullDataset, 1).val, <<"ACC1">>, <<"SR">>)

\* the accession number as filler order number and once more later, the
\* modality as the final field, at the positions of both reference segments
ObrCarries(seg, accession_number, modality) ==
    LET at == ObrLayout(seg, accession_number, modality)
    IN  /\ 4 \in at.accession
        /\ Cardinality(at.accession) = 2
        /\ at.modality = {at.final}
        /\ at = ObrLayoutOfDict
        /\ at = ObrLayoutOfDicom

\* C27: the dict path and the DICOM path of create_obr_segment both carry the
\* accession number twice (filler order number and a later field) and the
\* modality as the final field, at the same field positions.
C27_ObrSameLayout ==
    /\ ( /\ ObrBuiltFromDict
         /\ Key(Section(parsed, "study"), "accession_number", <<>>) # <<>>
         /\ Key(Section(parsed, "study"), "modality", <<>>) # <<>> ) =>
          ObrCarries(result, Key(Section(parsed, "study"), "accession_number", <<>>),
                     Key(Section(parsed, "study"), "modality", <<>>))
    /\ (ObrBuiltFromDicom /\ Get(data.Modality, <<>>) # <<>>) =>
          ObrCarries(result, data.AccessionNumber, data.Modality)

\* ------------------------------------------------------------ claim C28
\* the observations of the document are at hand
ObservationsBuilt ==
    module # NONE /\ pc \in {"for_obs", "create_diagnostic_report", "return", "done"}

\* the content items that become an Observation of dicom_to_fhir, in order
TextItems(ds) ==
    LET order == IF ds.hasContentSequence THEN Preorder(ds.Content, 0) ELSE <<>>
        HasText(i) == Has(ds.Content[i].TextValue)
    IN  SelectSeq(order, HasText)

WellFormedTimestamp(t) == Len(t) = 14 /\ \A k \in 1..14 : t[k] \in Digits

WellFormedTime(t) == Len(t) >= 6 /\ \A k \in 1..Len(t) : t[k] \in Digits

\* the effectiveDateTime of the claim: the item's timestamp when well-formed,
\* otherwise the study date, with the study time when that is well-formed
ClaimedEffective(ds, timestamp) ==
    LET ts   == Strip(Get(timestamp, <<>>))
        time == Strip(Get(ds.StudyTime, <<>>))
    IN  IF WellFormedTimestamp(ts)
        THEN format_dicom_date(SubSeq(ts, 1, 8)) \o <<"T">> \o HhMmSs(SubSeq(ts, 9, 14))
                \o <<"Z">>
        ELSE IF WellFormedTime(time)
        THEN format_dicom_date(ds.StudyDate) \o <<"T">> \o HhMmSs(time) \o <<"Z">>
        ELSE format_dicom_date(ds.StudyDate)

\* C28: every Observation built from a document that has a study date carries
\* an effectiveDateTime: the item's own observation timestamp when that is
\* well-formed, and otherwise (item timestamp absent or malformed, study time
\* absent or malformed) the value derived from the study date and time.
C28_EffectiveDateTime ==
    (ObservationsBuilt /\ Get(data.StudyDate, <<>>) # <<>>) =>
        \A k \in 1..Len(observations) :
            /\ observations[k].effectiveDateTime # ABSENT
            /\ observations[k].effectiveDateTime =
                  ClaimedEffective(data,
                      IF module = PyModule
                      THEN data.Content[TextItems(data)[k]].ObservationDateTime
                      ELSE ABSENT)

\* ------------------------------------------------------------ claim C29
\* the text of a line after its first '='
AfterFirstEquals(line) ==
    LET first == CHOOSE k \in 1..Len(line) :
                    line[k] = "=" /\ \A j \in 1..(k - 1) : line[j] # "="
    IN  SubSeq(line, first + 1, Len(line))

\* the report lines that became an Observation, in order
ObservedLines == FindingLines(ReportLines, <<>>)

\* C29: the Observation built from a walker line "<name> = <value>" has as
\* valueString the whole text after the first '=' of the line, trimmed, also
\* when the value itself contains '='; no part of the value is dropped.
C29_ValueAfterFirstEquals ==
    pc = "observations" =>
        \A k \in 1..Len(ObservedLines) :
            Contains(ObservedLines[k], "=") =>
                observations[k].valueString = Strip(AfterFirstEquals(ObservedLines[k]))

\* ------------------------------------ validation_modules/SR_validation.py
\* "if ds.get(tag)": the attribute is there and not empty
Truthy(v) == v # ABSENT /\ v # <<>>

\* validation_dict[key] = passed
Record(dict, key, passed) ==
    [check \in DOMAIN dict \cup {key} |-> IF check = key THEN passed ELSE dict[check]]

\* a concept name sequence whose first item has no CodeMeaning
NoCodeMeaning == <<"<no CodeMeaning>">>

\* SR_validation.parse_item reads item.ConceptNameCodeSequence[0].CodeMeaning
ItemParses(item) == item.ConceptName # NoCodeMeaning

\* True when the content sequence is there and every item of it was parsed;
\* an exception of the walk is caught and gives False
extract_content_sequence_data(ds) ==
    IF ~ds.hasContentSequence THEN FALSE
    ELSE \A i \in 1..Len(ds.Content) : ItemParses(ds.Content[i])

\* the checks of validate_SR that exit on failure, in the order of the code
RequiredTags ==
    << "StudyInstanceUID", "SeriesInstanceUID", "PatientID", "AccessionNumber",
       "SOPInstanceUID", "StudyDate", "StudyTime", "ContentDate", "ContentTime" >>

\* the key a failed check is recorded under
FailedKey(tag) == IF tag = "SeriesInstanceUID" THEN "StudyInstanceUID" ELSE tag

\* exit(): SystemExit leaves validate_SR
Exit(check) ==
    /\ pc' = "exited"
    /\ raised' = <<"SystemExit", check>>

CheckSOPClassUID ==
    /\ pc = "SOPClassUID"
    /\ validation_dict' = Record(validation_dict, "SOPClassUID", Truthy(data.SOPClassUID))
    /\ pc' = "Modality"
    /\ UNCHANGED <<data, output, report, hl7_list, result, raised, fhir_vars, build_vars,
                   serve_vars>>

CheckModality ==
    /\ pc = "Modality"
    /\ IF data.Modality # <<"SR">>
       THEN /\ validation_dict' = Record(validation_dict, "Modality", FALSE)
            /\ Exit("Modality")
       ELSE /\ validation_dict' = Record(validation_dict, "Modality", TRUE)
            /\ pc' = RequiredTags[1]
            /\ UNCHANGED raised
    /\ UNCHANGED <<data, output, report, hl7_list, result, fhir_vars, build_vars,
                   serve_vars>>

CheckRequired ==
    /\ \E k \in 1..Len(RequiredTags) :
          /\ pc = RequiredTags[k]
          /\ IF Truthy(data[RequiredTags[k]])
             THEN /\ validation_dict' = Record(validation_dict, RequiredTags[k], TRUE)
                  /\ pc' = (IF k < Len(RequiredTags) THEN RequiredTags[k + 1]
                            ELSE "ContentSequence")
                  /\ UNCHANGED raised
             ELSE /\ validation_dict' =
                        Record(validation_dict, FailedKey(RequiredTags[k]), FALSE)
                  /\ Exit(RequiredTags[k])
    /\ UNCHANGED <<data, output, report, hl7_list, result, fhir_vars, build_vars,
                   serve_vars>>

\* the last check runs inside try ... except: the bare except catches the
\* SystemExit of exit() as well, records the failure and falls off the end
CheckContentSequence ==
    /\ pc = "ContentSequence"
    /\ validation_dict' =
          Record(validation_dict, "ContentSequence", extract_content_sequence_data(data))
    /\ pc' = "returned"
    /\ UNCHANGED <<data, output, report, hl7_list, result, raised, fhir_vars, build_vars,
                   serve_vars>>

\* ------------------------------------------- specification: validate_SR
Modalities == {ABSENT, <<"MG">>, <<"SR">>}

ValidationTrees ==
    { <<>>,
      << ContainerItem(<<"Findings">>), [TextItem(<<"Finding">>, <<"mass">>) EXCEPT !.parent = 1] >>,
      << ContainerItem(<<"Findings">>), [TextItem(NoCodeMeaning, <<"mass">>) EXCEPT !.parent = 1] >> }

\* a dataset that lacks the required attributes of "missing"
ValidationDataset(missing, sop_class, modality, has, c) ==
    LET tags == { RequiredTags[k] : k \in 1..Len(RequiredTags) }
        required == [tag \in tags |-> IF tag \in missing THEN ABSENT ELSE <<"1">>]
        others == [SOPClassUID |-> sop_class, Modality |-> modality,
                   hasContentSequence |-> has, Content |-> IF has THEN c ELSE <<>>]
    IN  (required @@ others) @@ FullDataset

ValidateDatasets ==
    { ValidationDataset(missing, sop_class, modality, has, c) :
        missing \in SUBSET { RequiredTags[k] : k \in 1..Len(RequiredTags) },
        sop_class \in {ABSENT, <<"1.2.840.10008.5.1.4.1.1.88.50">>},
        modality \in Modalities, has \in BOOLEAN, c \in ValidationTrees }

InitValidate ==
    /\ pc = "SOPClassUID"
    /\ data \in ValidateDatasets
    /\ output = <<>>
    /\ report = <<>>
    /\ hl7_list = <<>>
    /\ result = NONE
    /\ raised = NONE
    /\ FhirIdle
    /\ BuildIdle
    /\ ServeIdle
    /\ ValidateIdle

NextValidate ==
    \/ CheckSOPClassUID
    \/ CheckModality
    \/ CheckRequired
    \/ CheckContentSequence

SpecValidate == InitValidate /\ [][NextValidate]_vars

\* ------------------------------------------------------------ claim C30
\* C30: validate_SR returns to its caller only when every required check
\* passed: then the Modality is SR, each of StudyInstanceUID,
\* SeriesInstanceUID, PatientID, AccessionNumber, SOPInstanceUID, StudyDate,
\* StudyTime, ContentDate and ContentTime is present, and the content
\* sequence is present and was walked without an exception; a missing or
\* unparseable content sequence halts the validation like every other check.
C30_ReturnsOnlyWhenValid ==
    pc = "returned" =>
        /\ data.Modality = <<"SR">>
        /\ \A k \in 1..Len(RequiredTags) : Truthy(data[RequiredTags[k]])
        /\ data.hasContentSequence
        /\ \A i \in 1..Len(data.Content) : ItemParses(data.Content[i])

====
